---- MODULE Spec2Model ----
(***************************************************************************)
(* Model of the data layer of eco-and-rebano-tracker:                      *)
(*   src/utils.py             the daily file cache                         *)
(*   src/environment/data.py  the air-quality and reservoir scrapers       *)
(* Each component has its own specification (SpecCache, SpecScrape, ...);  *)
(* a specification leaves the variables of the other components alone.     *)
(***************************************************************************)
EXTENDS Integers, Sequences, FiniteSets, TLC

VARIABLES
    files,      \* cache: filename -> [kind, bytes], the file system
    today,      \* cache: index of the current calendar date in Dates
    lastGood,   \* cache (history): filename -> the latest save that ended without error
    failedSince,\* cache (history): filename -> a save failed after lastGood
    cacheOp,    \* cache: the latest cache call and what it gave its caller
    page,       \* functions: the elements of the page at hand
    reading,    \* functions: what _parse_html gave for page
    stations,   \* functions: what _parse_all_stations gave for page
    imecaArg,   \* functions: the value handed to _determine_status
    statusRet,  \* functions: what _determine_status gave for imecaArg
    level,      \* functions: the call of get_chapala_level_real on page
    call,       \* scraper: the running call, [fn, use_mock_on_error]
    pc,         \* scraper: "idle", "loop" (inside the for loop) or "done"
    attempt,    \* scraper: the loop variable of the pass to come
    fetches,    \* scraper (history): the calls of requests.get of this call
    slept,      \* scraper (history): the seconds of time.sleep of this call
    log,        \* scraper (history): what each requests.get answered
    lastPage,   \* scraper (history): the page of the latest answer, if it was one
    result,     \* scraper: what the call gave its caller
    credential, \* news: an API key is set in the environment
    newsCall,   \* news: the running call, [fn, use_ai, fetches (history), afterGood (history)]
    newsPc,     \* news: "idle", "items" (processing the items) or "done"
    newsList,   \* news: the items of the feed still to process
    newsResult, \* news: the list the call gives its caller
    remoteLog,  \* news (history): per item of newsResult, what its model calls answered
    served,     \* news (history): function -> a non-empty list was returned on this date
    writer,     \* interleaving: the running save_daily_cache, [pc, chunks, data, old]
    reader,     \* interleaving: the running load_daily_cache, [pc, buf, result, old, new, overlapped]
    lastUpdate, \* clock: the last_update of _parse_html and of _parse_all_stations for page
    now         \* clock: datetime.now(), [hour, minute]

cacheVars == <<files, today, lastGood, failedSince, cacheOp>>

functionVars == <<page, reading, stations, imecaArg, statusRet, level>>

scraperVars == <<call, pc, attempt, fetches, slept, log, lastPage, result>>

newsVars == <<credential, newsCall, newsPc, newsList, newsResult, remoteLog, served>>

raceVars == <<writer, reader>>

clockVars == <<lastUpdate, now>>

vars == <<cacheVars, functionVars, scraperVars, newsVars, raceVars, clockVars>>


(***************************************************************************)
(* Generic helpers                                                         *)
(***************************************************************************)
Min(S) == CHOOSE x \in S : \A y \in S : x <= y

Max(S) == CHOOSE x \in S : \A y \in S : x >= y

(***************************************************************************)
(* Daily cache (src/utils.py)                                              *)
(***************************************************************************)

\* Bounds of the cache model.
MaxDay == 2
MaxItems == 1
MaxPartial == 1

\* The cache files of the two news datasets.
Filenames == {"env_news.json", "chivas_news.json"}

\* datetime.now().strftime("%Y-%m-%d") for consecutive days (a year boundary included).
Dates == <<"2025-12-30", "2025-12-31", "2026-01-01", "2026-01-02">>

StrfDate(day) == Dates[day]

\* News items a payload may hold.  raw = "object" stands for a value json cannot
\* encode (json.dump raises TypeError when it reaches it).
Items ==
    { [title |-> "a", processed |-> FALSE, raw |-> "none"],
      [title |-> "b", processed |-> TRUE,  raw |-> "none"],
      [title |-> "c", processed |-> FALSE, raw |-> "object"] }

Payloads == UNION { [1..n -> Items] : n \in 0..MaxItems }

Serializable(data) == \A i \in 1..Len(data) : data[i].raw = "none"

\* ---- json.dump: the chunks written to the file, in order -----------------
BoolTok(b) == IF b THEN "true" ELSE "false"

DumpItem(it) ==
    <<"{", "title", ":", it.title, ",", "processed", ":", BoolTok(it.processed)>>
    \o (IF it.raw = "none" THEN <<"}">> ELSE <<",", "raw", ":">>)

RECURSIVE DumpItems(_, _)
DumpItems(data, i) ==
    IF i > Len(data) THEN <<>>
    ELSE (IF i > 1 THEN <<",">> ELSE <<>>) \o DumpItem(data[i])
         \o (IF data[i].raw = "none" THEN DumpItems(data, i + 1) ELSE <<>>)

\* The chunks json.dump writes for {"date": date, "data": data}; when data is
\* not serializable the chunks stop where TypeError is raised.
JsonDump(date, data) ==
    <<"{", "date", ":", date, ",", "data", ":", "[">> \o DumpItems(data, 1)
    \o (IF Serializable(data) THEN <<"]", "}">> ELSE <<>>)

\* A "date" member that is missing from the document (dict.get gives None).
NoDate == "<none>"

\* ---- json.load ----------------------------------------------------------
Tok(b, i) == IF i <= Len(b) THEN b[i] ELSE "<eof>"

ParseFail == [ok |-> FALSE, val |-> <<>>, next |-> 0]

\* An object {"title": t, "processed": true|false} starting at b[i].
ParseItem(b, i) ==
    IF /\ Tok(b, i) = "{" /\ Tok(b, i + 1) = "title" /\ Tok(b, i + 2) = ":"
       /\ Tok(b, i + 3) \in {"a", "b", "c"}
       /\ Tok(b, i + 4) = "," /\ Tok(b, i + 5) = "processed" /\ Tok(b, i + 6) = ":"
       /\ Tok(b, i + 7) \in {"true", "false"}
       /\ Tok(b, i + 8) = "}"
    THEN [ok |-> TRUE,
          val |-> <<[title |-> Tok(b, i + 3), processed |-> (Tok(b, i + 7) = "true"),
                     raw |-> "none"]>>,
          next |-> i + 9]
    ELSE ParseFail

\* The elements of an array after its "[", up to and including its "]".
RECURSIVE ParseItems(_, _, _)
ParseItems(b, i, acc) ==
    IF Tok(b, i) = "]" /\ acc = <<>> THEN [ok |-> TRUE, val |-> acc, next |-> i + 1]
    ELSE LET it == ParseItem(b, i) IN
         IF ~it.ok THEN ParseFail
         ELSE IF Tok(b, it.next) = "]"
              THEN [ok |-> TRUE, val |-> acc \o it.val, next |-> it.next + 1]
         ELSE IF Tok(b, it.next) = ","
              THEN ParseItems(b, it.next + 1, acc \o it.val)
         ELSE ParseFail

ParseArray(b, i) == IF Tok(b, i) = "[" THEN ParseItems(b, i + 1, <<>>) ELSE ParseFail

\* json.load of a whole file: the document, or a JSONDecodeError.
\*   kind "dict": an object with optional "date" and "data" members
\*   kind "list": a top-level array (valid JSON, but no dict)
\*   kind "error": not a JSON document (empty and truncated files included)
JsonLoad(b) ==
    LET bad == [kind |-> "error", date |-> NoDate, data |-> <<>>, hasData |-> FALSE]
        arr == ParseArray(b, 1)
        hasDate == Tok(b, 2) = "date" /\ Tok(b, 3) = ":" /\ Tok(b, 5) \in {",", "}"}
        d == IF hasDate THEN Tok(b, 4) ELSE NoDate
        p == IF hasDate THEN (IF Tok(b, 5) = "," THEN 6 ELSE 5) ELSE 2
        hasDat == Tok(b, p) = "data" /\ Tok(b, p + 1) = ":"
        dat == IF hasDat THEN ParseArray(b, p + 2) ELSE ParseFail
        q == IF hasDat THEN dat.next ELSE p
    IN  IF Tok(b, 1) = "["
        THEN IF arr.ok /\ arr.next = Len(b) + 1
             THEN [kind |-> "list", date |-> NoDate, data |-> arr.val, hasData |-> FALSE]
             ELSE bad
        ELSE IF Tok(b, 1) = "{"
        THEN IF (hasDat => dat.ok) /\ Tok(b, q) = "}" /\ q = Len(b)
             THEN [kind |-> "dict", date |-> d,
                   data |-> IF hasDat THEN dat.val ELSE <<>>, hasData |-> hasDat]
             ELSE bad
        ELSE bad

\* ---- exceptions -------------------------------------------------------------
\* What a block of code gives: a returned value (absent stands for None) or a
\* raised exception.
Return(data) == [outcome |-> "return", absent |-> FALSE, data |-> data]

ReturnNone == [outcome |-> "return", absent |-> TRUE, data |-> <<>>]

Raise == [outcome |-> "raise", absent |-> TRUE, data |-> <<>>]

\* Mutant: no except clause, the exception reaches the caller.
ExceptPropagate(r) == r

\* try: ... except Exception: (log) return None
ExceptReturnNone(r) == IF r.outcome = "raise" THEN ReturnNone ELSE r

\* ---- load_daily_cache -----------------------------------------------------------
\* os.path.exists(filename)
PathExists(f) == f.kind /= "missing"

\* Mutant: a document that breaks off inside its "data" array is read as
\* far as it goes: the items that are whole are returned.
LoadTryBodyLenient(f, day) ==
    IF f.kind /= "file" THEN Raise
    ELSE LET doc == JsonLoad(f.bytes)
             head == SubSeq(JsonDump(StrfDate(day), <<>>), 1, 8)
         IN
         IF doc.kind = "error"
         THEN (IF Len(f.bytes) >= 8 /\ SubSeq(f.bytes, 1, 8) = head
               THEN Return(<<>>) ELSE Raise)
         ELSE IF doc.kind = "list" THEN Raise
         ELSE IF doc.date = StrfDate(day)
              THEN (IF doc.hasData THEN Return(doc.data) ELSE ReturnNone)
              ELSE ReturnNone

\* Mutant: the stored date is not compared with today's.
LoadTryBodyAnyDate(f, day) ==
    IF f.kind /= "file" THEN Raise
    ELSE LET doc == JsonLoad(f.bytes) IN
         IF doc.kind /= "dict" THEN Raise
         ELSE IF doc.hasData THEN Return(doc.data) ELSE ReturnNone

\* The body of the try block of load_daily_cache.
LoadTryBody(f, day) ==
    IF f.kind /= "file" THEN Raise                      \* open() fails
    ELSE LET doc == JsonLoad(f.bytes) IN
         IF doc.kind = "error" THEN Raise               \* json.load fails
         ELSE IF doc.kind = "list" THEN Raise           \* a list has no .get
         ELSE IF doc.date = StrfDate(day)
              THEN (IF doc.hasData THEN Return(doc.data) ELSE ReturnNone)
              ELSE ReturnNone

load_daily_cache(f, day) ==
    IF ~PathExists(f) THEN ReturnNone
    ELSE ExceptReturnNone(LoadTryBody(f, day))

\* ---- save_daily_cache -----------------------------------------------------------
Prefix(s, n) == SubSeq(s, 1, n)

\* Mutant: the file is opened in append mode, the entry is added to what it held.
SavedFileAppend(f, day, data, fault, cut) ==
    IF fault = "open" \/ f.kind = "dir" THEN f
    ELSE [kind |-> "file",
          bytes |-> f.bytes \o (IF fault = "write"
                                THEN SubSeq(JsonDump(Dates[day], data), 1, cut)
                                ELSE JsonDump(Dates[day], data))]

\* What the file holds after the try block of save_daily_cache ran under the
\* given I/O fault: "open" (open(filename, 'w') fails, nothing is touched),
\* "write" (the file was truncated by open and a write failed after cut chunks),
\* "none" (no I/O fault; a TypeError of json.dump still leaves the chunks
\* written so far).
SavedFile(f, day, data, fault, cut) ==
    IF fault = "open" \/ f.kind = "dir" THEN f
    ELSE IF fault = "write"
         THEN [kind |-> "file", bytes |-> Prefix(JsonDump(StrfDate(day), data), cut)]
    ELSE [kind |-> "file", bytes |-> JsonDump(StrfDate(day), data)]

\* The body of the try block of save_daily_cache: returns, or raises.
SaveTryBody(f, data, fault) ==
    IF fault \in {"open", "write"} \/ f.kind = "dir" \/ ~Serializable(data)
    THEN Raise ELSE ReturnNone

save_daily_cache(f, data, fault) == ExceptReturnNone(SaveTryBody(f, data, fault))

\* ---- the cache as a state machine ------------------------------------------------
StaleDate == "2025-12-29"

\* What a cache file can be when the process starts.
InitialFiles ==
    { [kind |-> "missing", bytes |-> <<>>],
      [kind |-> "dir", bytes |-> <<>>],
      [kind |-> "file", bytes |-> <<>>],
      [kind |-> "file", bytes |-> <<"[", "]">>],
      [kind |-> "file", bytes |-> <<"{", "data", ":", "[", "]", "}">>],
      [kind |-> "file", bytes |-> JsonDump(StaleDate, <<>>)],
      [kind |-> "file", bytes |-> JsonDump(StrfDate(1), <<>>)] }

NeverSaved == [called |-> FALSE, day |-> 0, data |-> <<>>]

NoCacheOp == [op |-> "none", file |-> "", day |-> 0, outcome |-> "return",
              absent |-> TRUE, data |-> <<>>]


(***************************************************************************)
(* Page text (src/environment/data.py): a text is a sequence of one-       *)
(* character strings; the regular expressions of the scrapers are          *)
(* operators over such sequences, position by position as re.search        *)
(* evaluates them.                                                         *)
(***************************************************************************)
Digit == {"0", "1", "2", "3", "4", "5", "6", "7", "8", "9"}

AsciiLower ==
    {"a", "b", "c", "d", "e", "f", "g", "h", "i", "j", "k", "l", "m",
     "n", "o", "p", "q", "r", "s", "t", "u", "v", "w", "x", "y", "z"}

UpperSeq ==
    <<"A", "B", "C", "D", "E", "F", "G", "H", "I", "J", "K", "L", "M",
      "N", "O", "P", "Q", "R", "S", "T", "U", "V", "W", "X", "Y", "Z",
      "Á", "É", "Í", "Ó", "Ú", "Ñ">>

LowerSeq ==
    <<"a", "b", "c", "d", "e", "f", "g", "h", "i", "j", "k", "l", "m",
      "n", "o", "p", "q", "r", "s", "t", "u", "v", "w", "x", "y", "z",
      "á", "é", "í", "ó", "ú", "ñ">>

LowerMap ==
    [c \in {UpperSeq[i] : i \in 1..Len(UpperSeq)} |->
        LowerSeq[CHOOSE i \in 1..Len(UpperSeq) : UpperSeq[i] = c]]

\* str.lower() of one character; re.IGNORECASE compares characters through it.
Lower(c) == IF c \in DOMAIN LowerMap THEN LowerMap[c] ELSE c

\* [A-Za-z] (also under re.IGNORECASE: the accented letters are not in it)
AsciiLetter == {c \in AsciiLower \cup DOMAIN LowerMap : Lower(c) \in AsciiLower}

\* [A-Za-zÁÉÍÓÚÑñ ] under re.IGNORECASE
StationChar == AsciiLower \cup DOMAIN LowerMap \cup {"á", "é", "í", "ó", "ú", "ñ", " "}

\* \s
Space == {" ", "\n", "\t"}

\* \w
WordChar == AsciiLower \cup DOMAIN LowerMap \cup {"á", "é", "í", "ó", "ú", "ñ", "_"} \cup Digit

\* The character at position i, "" outside the text.
Ch(t, i) == IF i >= 1 /\ i <= Len(t) THEN t[i] ELSE ""

\* C* from position i, greedy: the first position >= i whose character is not in C.
Run(t, i, C) == Min({j \in i..(Len(t) + 1) : Ch(t, j) \notin C})

\* [^0-9]* from position i, greedy.
RunNonDigit(t, i) == Min({j \in i..(Len(t) + 1) : j = Len(t) + 1 \/ t[j] \in Digit})

\* The literal w (lower case) at position i, compared as re.IGNORECASE does.
Lit(t, i, w) == \A k \in 1..Len(w) : Lower(Ch(t, i + k - 1)) = w[k]

\* The literal w at position i, case-sensitive.
LitCS(t, i, w) == \A k \in 1..Len(w) : Ch(t, i + k - 1) = w[k]

\* t[i..j-1]
Slice(t, i, j) == SubSeq(t, i, j - 1)

DigitVal(c) == CHOOSE d \in 0..9 : <<"0", "1", "2", "3", "4", "5", "6", "7", "8", "9">>[d + 1] = c

\* int() of a digit string
RECURSIVE ToInt(_)
ToInt(s) == IF s = <<>> THEN 0 ELSE 10 * ToInt(SubSeq(s, 1, Len(s) - 1)) + DigitVal(s[Len(s)])

\* str.strip()
Strip(s) ==
    LET keep == {i \in 1..Len(s) : s[i] \notin Space} IN
    IF keep = {} THEN <<>> ELSE SubSeq(s, Min(keep), Max(keep))

\* re.sub(r'\s+', ' ', s)
RECURSIVE CollapseSpaces(_)
CollapseSpaces(s) ==
    IF s = <<>> THEN <<>>
    ELSE IF s[1] \in Space THEN <<" ">> \o CollapseSpaces(Slice(s, Run(s, 1, Space), Len(s) + 1))
    ELSE <<s[1]>> \o CollapseSpaces(Tail(s))

\* str.lower()
LowerStr(s) == [i \in 1..Len(s) |-> Lower(s[i])]

\* needle in haystack (both as given)
Contains(hay, needle) == \E i \in 1..(Len(hay) - Len(needle) + 1) : LitCS(hay, i, needle)

RECURSIVE Concat(_)
Concat(ss) == IF ss = <<>> THEN <<>> ELSE Head(ss) \o Concat(Tail(ss))

(***************************************************************************)
(* The page: the elements of the parsed HTML in document order, each with  *)
(* its tag group, whether its class matches imeca|valor|nivel|index, and   *)
(* its text.                                                               *)
(*   tag "h"    h1..h6                                                     *)
(*   tag "div"  div, span, p                                               *)
(*   tag "td"   any other element                                          *)
(***************************************************************************)

\* soup.get_text()
GetText(els) == Concat([i \in 1..Len(els) |-> els[i].text])

\* soup.get_text(" ", strip=True)
RECURSIVE GetTextStripped(_)
GetTextStripped(els) ==
    IF els = <<>> THEN <<>>
    ELSE LET head == Strip(els[1].text)
             rest == GetTextStripped(Tail(els))
         IN  IF head = <<>> THEN rest
             ELSE IF rest = <<>> THEN head
             ELSE head \o <<" ">> \o rest

NoNumber == [found |-> FALSE, value |-> 0]

Number(v) == [found |-> TRUE, value |-> v]

\* ---- Method 1: (\d+)\s*puntos?\s*IMECA ---------------------------------------
ImecaPatternAt(t, i) ==
    LET k == Run(t, Run(t, i, Digit), Space)
        s == IF Lower(Ch(t, k + 5)) = "s" THEN k + 6 ELSE k + 5
    IN  /\ Ch(t, i) \in Digit
        /\ Lit(t, k, <<"p", "u", "n", "t", "o">>)
        /\ Lit(t, Run(t, s, Space), <<"i", "m", "e", "c", "a">>)

\* re.search(imeca_pattern, page_text, re.IGNORECASE), group 1 as int
ImecaPatternSearch(t) ==
    LET starts == {i \in 1..Len(t) : ImecaPatternAt(t, i)} IN
    IF starts = {} THEN NoNumber
    ELSE Number(ToInt(Slice(t, Min(starts), Run(t, Min(starts), Digit))))

\* ---- Methods 2 and 3: \b(\d{1,3})\b in the text of an element -------------
\* re.search(r'\b(\d{1,3})\b', s), group 1 as int
FirstNumber(s) ==
    LET starts == {i \in 1..Len(s) :
                      /\ s[i] \in Digit
                      /\ Ch(s, i - 1) \notin WordChar
                      /\ Run(s, i, Digit) - i <= 3
                      /\ Ch(s, Run(s, i, Digit)) \notin WordChar}
    IN  IF starts = {} THEN NoNumber
        ELSE Number(ToInt(Slice(s, Min(starts), Run(s, Min(starts), Digit))))

\* The loop over the chosen elements: the first whose first number is in 0..200.
ElementScan(els, chosen) ==
    LET hits == {i \in chosen :
                    LET n == FirstNumber(Strip(els[i].text)) IN
                    n.found /\ n.value >= 0 /\ n.value <= 200}
    IN  IF hits = {} THEN NoNumber ELSE FirstNumber(Strip(els[Min(hits)].text))

\* soup.find_all(['h1', ..., 'h6'])
HeaderScan(els) == ElementScan(els, {i \in 1..Len(els) : els[i].tag = "h"})

\* soup.find_all(['div', 'span', 'p'], class_=re.compile(r'imeca|valor|nivel|index', re.I))
ClassScan(els) == ElementScan(els, {i \in 1..Len(els) : els[i].tag = "div" /\ els[i].hinted})

\* ---- Method 4: IMECA[^0-9]*(\d{1,3})|(\d{1,3})[^0-9]*IMECA ------------------
ContextAfterAt(t, i) ==
    Lit(t, i, <<"i", "m", "e", "c", "a">>) /\ RunNonDigit(t, i + 5) <= Len(t)

ContextBeforeAt(t, i) ==
    LET j == Run(t, i, Digit) IN
    /\ Ch(t, i) \in Digit
    /\ j - i <= 3
    /\ \E p \in j..(RunNonDigit(t, j) - 1) : Lit(t, p, <<"i", "m", "e", "c", "a">>)

\* re.search(imeca_context_pattern, page_text, re.IGNORECASE), int(group(1) or group(2))
ContextSearch(t) ==
    LET starts == {i \in 1..Len(t) : ContextAfterAt(t, i) \/ ContextBeforeAt(t, i)}
        i0 == Min(starts)
        k == RunNonDigit(t, i0 + 5)
    IN  IF starts = {} THEN NoNumber
        ELSE IF ContextAfterAt(t, i0)
             THEN Number(ToInt(Slice(t, k, Min({Run(t, k, Digit), k + 3}))))
        ELSE Number(ToInt(Slice(t, i0, Run(t, i0, Digit))))

InRange200(n) == n.found /\ n.value >= 0 /\ n.value <= 200

\* Mutant: the loose keyword-proximity pattern is tried before the specific one.
ExtractImecaLooseFirst(els) ==
    LET t == GetText(els) IN
    IF InRange200(ContextSearch(t)) THEN ContextSearch(t)
    ELSE ImecaPatternSearch(t)

\* The cascade of _parse_html: the value, or not found (imeca_value is None).
ExtractImeca(els) ==
    LET t == GetText(els) IN
    IF ImecaPatternSearch(t).found THEN ImecaPatternSearch(t)
    ELSE IF HeaderScan(els).found THEN HeaderScan(els)
    ELSE IF ClassScan(els).found THEN ClassScan(els)
    ELSE IF InRange200(ContextSearch(t)) THEN ContextSearch(t)
    ELSE NoNumber

\* ---- lead+([A-Za-z\s]+?)(?:terminator) ----------------------------------------
NoGroup == [found |-> FALSE, text |-> <<>>]

\* (?:\s|\.|$)
TermPlain(t, p) == Ch(t, p) \in Space \cup {"."} \/ p = Len(t) + 1

\* (?:\s|\.|$|puntos|07)
TermStation(t, p) ==
    \/ TermPlain(t, p)
    \/ Lit(t, p, <<"p", "u", "n", "t", "o", "s">>)
    \/ LitCS(t, p, <<"0", "7">>)

\* From position a: lead+ (greedy, giving back one character at a time), then
\* the lazy group, then the terminator; the group of the first alternative
\* that the backtracking search reaches.
LazyGroupAt(t, a, lead, stationEnd) ==
    LET b == Run(t, a, lead)
        cls == AsciiLetter \cup Space
        Term(p) == IF stationEnd THEN TermStation(t, p) ELSE TermPlain(t, p)
        cands == {c \in (1..(b - a)) \X (1..Len(t)) :
                     /\ a + c[1] + c[2] <= Run(t, a + c[1], cls)
                     /\ Term(a + c[1] + c[2])}
        w == Max({c[1] : c \in cands})
        n == Min({c[2] : c \in {d \in cands : d[1] = w}})
    IN  IF cands = {} THEN NoGroup
        ELSE [found |-> TRUE, text |-> Slice(t, a + w, a + w + n)]

\* ---- station pattern 1: puntos?\s+IMECA\s+en\s+([A-Za-z\s]+?)(?:\s|\.|$|puntos|07)
\* The position after "en", 0 when the literal part does not match at i.
StationPattern1Lead(t, i) ==
    LET s == IF Lower(Ch(t, i + 5)) = "s" THEN i + 6 ELSE i + 5
        m == Run(t, s, Space)
        e == Run(t, m + 5, Space)
    IN  IF /\ Lit(t, i, <<"p", "u", "n", "t", "o">>)
           /\ m > s /\ Lit(t, m, <<"i", "m", "e", "c", "a">>)
           /\ e > m + 5 /\ Lit(t, e, <<"e", "n">>)
        THEN e + 2 ELSE 0

StationPattern1Group(t, i) == LazyGroupAt(t, StationPattern1Lead(t, i), Space, TRUE)

StationPattern1At(t, i) == StationPattern1Lead(t, i) > 0 /\ StationPattern1Group(t, i).found

\* ---- station pattern 2: estaci[óo]n[:\s]+([A-Za-z\s]+?)(?:\s|\.|$) -----------
StationPattern2Group(t, i) == LazyGroupAt(t, i + 8, Space \cup {":"}, FALSE)

StationPattern2At(t, i) ==
    /\ Lit(t, i, <<"e", "s", "t", "a", "c", "i">>)
    /\ Lower(Ch(t, i + 6)) \in {"ó", "o"}
    /\ Lower(Ch(t, i + 7)) = "n"
    /\ StationPattern2Group(t, i).found

\* ---- station pattern 3: en\s+([A-Z][a-z]+(?:\s+[A-Z][a-z]+)*)\s+(?:puntos|estaci)
\* The positions where [A-Z][a-z]+(?:\s+[A-Z][a-z]+)* starting at p can end.
RECURSIVE WordsEnds(_, _)
WordsEnds(t, p) ==
    LET e == Run(t, p, AsciiLetter)
        s == Run(t, e, Space)
    IN  IF e - p < 2 THEN {}
        ELSE {e} \cup (IF s > e THEN WordsEnds(t, s) ELSE {})

StationPattern3Ends(t, i) ==
    LET p == Run(t, i + 2, Space) IN
    IF Lit(t, i, <<"e", "n">>) /\ p > i + 2
    THEN {e \in WordsEnds(t, p) :
             LET s == Run(t, e, Space) IN
             /\ s > e
             /\ \/ Lit(t, s, <<"p", "u", "n", "t", "o", "s">>)
                \/ Lit(t, s, <<"e", "s", "t", "a", "c", "i">>)}
    ELSE {}

StationPattern3At(t, i) == StationPattern3Ends(t, i) /= {}

StationPattern3Group(t, i) ==
    [found |-> TRUE, text |-> Slice(t, Run(t, i + 2, Space), Max(StationPattern3Ends(t, i)))]

\* ---- the station of _parse_html -----------------------------------------------
\* re.search(station_patterns[n - 1], page_text, re.IGNORECASE): group 1 of the
\* leftmost match.
StationSearch(n, t) ==
    LET At(i) == CASE n = 1 -> StationPattern1At(t, i)
                   [] n = 2 -> StationPattern2At(t, i)
                   [] OTHER -> StationPattern3At(t, i)
        starts == {i \in 1..Len(t) : At(i)}
    IN  IF starts = {} THEN NoGroup
        ELSE CASE n = 1 -> StationPattern1Group(t, Min(starts))
               [] n = 2 -> StationPattern2Group(t, Min(starts))
               [] OTHER -> StationPattern3Group(t, Min(starts))

CommonWords == {<<"e", "n">>, <<"l", "a">>, <<"e", "l">>, <<"d", "e">>, <<"d", "e", "l">>}

\* len(station) > 2 and station.lower() not in ['en', 'la', 'el', 'de', 'del']
StationAccepted(s) == Len(s) > 2 /\ LowerStr(s) \notin CommonWords

\* station_match.group(1).strip(), then re.sub(r'\s+', ' ', station)
CleanStation(g) == CollapseSpaces(Strip(g))

\* One turn of the loop over station_patterns; st = [set, val, done].
StationStep(st, m) ==
    IF st.done \/ ~m.found THEN st
    ELSE [set |-> TRUE, val |-> CleanStation(m.text), done |-> StationAccepted(CleanStation(m.text))]

KnownStations ==
    << <<"L", "a", "s", " ", "P", "i", "n", "t", "a", "s">>,
       <<"C", "O", "U", "N", "T", "R", "Y">>,
       <<"C", "e", "n", "t", "r", "o">>,
       <<"M", "i", "r", "a", "v", "a", "l", "l", "e">>,
       <<"T", "l", "a", "q", "u", "e", "p", "a", "q", "u", "e">>,
       <<"V", "a", "l", "l", "a", "r", "t", "a">>,
       <<"O", "b", "l", "a", "t", "o", "s">>,
       <<"Á", "g", "u", "i", "l", "a", "s">> >>

ZMG == <<"Z", "M", "G">>

\* The first known station whose name occurs in the page text, else "ZMG".
KnownStationIn(t) ==
    LET hits == {i \in 1..Len(KnownStations) :
                    Contains(LowerStr(t), LowerStr(KnownStations[i]))}
    IN  IF hits = {} THEN ZMG ELSE KnownStations[Min(hits)]

\* station = None
NoStation == [set |-> FALSE, val |-> <<>>, done |-> FALSE]

\* if not station: ... after the loop over station_patterns left st.
StationAfterLoop(st, t) == IF st.set /\ st.val /= <<>> THEN st.val ELSE KnownStationIn(t)

\* The station of _parse_html: the three patterns in turn, then the known names.
ExtractStation(t) ==
    StationAfterLoop(
        StationStep(StationStep(StationStep(NoStation, StationSearch(1, t)),
                                StationSearch(2, t)),
                    StationSearch(3, t)),
        t)

\* ---- the status of _parse_html ------------------------------------------------
\* Config (src/environment/data.py)
IMECA_MIN == 0
IMECA_MAX == 200
IMECA_GOOD == 50
IMECA_BAD == 100

\* Mutant: the limits are exclusive (< in place of <=).
DetermineStatusExclusive(imeca) ==
    IF imeca < IMECA_GOOD THEN "Buena"
    ELSE IF imeca < IMECA_BAD THEN "Regular"
    ELSE IF imeca < 150 THEN "Mala"
    ELSE "Muy Mala"

\* AirQualityScraper._determine_status
DetermineStatus(imeca) ==
    IF imeca <= IMECA_GOOD THEN "Buena"
    ELSE IF imeca <= IMECA_BAD THEN "Regular"
    ELSE IF imeca <= 150 THEN "Mala"
    ELSE "Muy Mala"

NoStatus == ""

\* The mapping of a matched status text to a standard status ("" for None).
StatusOfText(g) ==
    LET s == LowerStr(CollapseSpaces(Strip(g))) IN
    IF Contains(s, <<"m", "u", "y", " ", "m", "a", "l", "a">>) THEN "Muy Mala"
    ELSE IF Contains(s, <<"m", "a", "l", "a">>) /\ ~Contains(s, <<"m", "u", "y">>) THEN "Mala"
    ELSE IF Contains(s, <<"r", "e", "g", "u", "l", "a", "r">>) THEN "Regular"
    ELSE IF Contains(s, <<"b", "u", "e", "n", "a">>) THEN "Buena"
    ELSE NoStatus

\* Índice\s+AIRE\s+Y\s+SALUD (joiner "y") and Índice\s+AIRE\s+&\s+SALUD (joiner
\* "&"): the position after "SALUD", 0 when the literal part does not match at i.
IndiceLead(t, i, joiner) ==
    LET a == Run(t, i + 6, Space)
        y == Run(t, a + 4, Space)
        s == Run(t, y + 1, Space)
    IN  IF /\ Lit(t, i, <<"í", "n", "d", "i", "c", "e">>)
           /\ a > i + 6 /\ Lit(t, a, <<"a", "i", "r", "e">>)
           /\ y > a + 4 /\ Lower(Ch(t, y)) = joiner
           /\ s > y + 1 /\ Lit(t, s, <<"s", "a", "l", "u", "d">>)
        THEN s + 5 ELSE 0

StatusPattern1Group(t, i) == LazyGroupAt(t, IndiceLead(t, i, "y"), Space \cup {":"}, FALSE)

StatusPattern1At(t, i) == IndiceLead(t, i, "y") > 0 /\ StatusPattern1Group(t, i).found

StatusPattern2Group(t, i) == LazyGroupAt(t, IndiceLead(t, i, "&"), Space \cup {":"}, FALSE)

StatusPattern2At(t, i) == IndiceLead(t, i, "&") > 0 /\ StatusPattern2Group(t, i).found

\* Estado[:\s]+([A-Za-z\s]+?)(?:\s|\.|$)
StatusPattern3Group(t, i) == LazyGroupAt(t, i + 6, Space \cup {":"}, FALSE)

StatusPattern3At(t, i) ==
    Lit(t, i, <<"e", "s", "t", "a", "d", "o">>) /\ StatusPattern3Group(t, i).found

\* (BUENA|REGULAR|MALA|MUY\s+MALA)(?:\s|$|\.) at position p: the position after
\* the word, 0 when none is there.  Under re.IGNORECASE the fifth pattern of
\* status_patterns (Buena|Regular|Mala|Muy\s+Mala) is this same pattern.
StatusWordEnd(t, p) ==
    LET m == Run(t, p + 3, Space)
        e == IF Lit(t, p, <<"b", "u", "e", "n", "a">>) THEN p + 5
             ELSE IF Lit(t, p, <<"r", "e", "g", "u", "l", "a", "r">>) THEN p + 7
             ELSE IF Lit(t, p, <<"m", "a", "l", "a">>) THEN p + 4
             ELSE IF Lit(t, p, <<"m", "u", "y">>) /\ m > p + 3 /\ Lit(t, m, <<"m", "a", "l", "a">>)
                  THEN m + 4
             ELSE 0
    IN  IF e > 0 /\ TermPlain(t, e) THEN e ELSE 0

\* (?:^|\n|\s) at i under re.MULTILINE: the position where the word starts.
StatusPattern4Word(t, i) ==
    IF (i = 1 \/ Ch(t, i - 1) = "\n") /\ StatusWordEnd(t, i) > 0 THEN i
    ELSE IF Ch(t, i) \in Space /\ StatusWordEnd(t, i + 1) > 0 THEN i + 1
    ELSE 0

StatusPattern4At(t, i) == StatusPattern4Word(t, i) > 0

StatusPattern4Group(t, i) ==
    [found |-> TRUE,
     text |-> Slice(t, StatusPattern4Word(t, i), StatusWordEnd(t, StatusPattern4Word(t, i)))]

\* re.search(status_patterns[n - 1], page_text, re.IGNORECASE | re.MULTILINE):
\* group 1 of the leftmost match; n = 4 stands for the last two patterns.
StatusSearch(n, t) ==
    LET At(i) == CASE n = 1 -> StatusPattern1At(t, i)
                   [] n = 2 -> StatusPattern2At(t, i)
                   [] n = 3 -> StatusPattern3At(t, i)
                   [] OTHER -> StatusPattern4At(t, i)
        starts == {i \in 1..Len(t) : At(i)}
    IN  IF starts = {} THEN NoGroup
        ELSE CASE n = 1 -> StatusPattern1Group(t, Min(starts))
               [] n = 2 -> StatusPattern2Group(t, Min(starts))
               [] n = 3 -> StatusPattern3Group(t, Min(starts))
               [] OTHER -> StatusPattern4Group(t, Min(starts))

\* One turn of the loop over status_patterns.
StatusStep(status, m) ==
    IF status /= NoStatus \/ ~m.found THEN status ELSE StatusOfText(m.text)

\* The status named by the page text ("" when there is none).
ExtractStatus(t) ==
    StatusStep(StatusStep(StatusStep(StatusStep(NoStatus, StatusSearch(1, t)),
                                     StatusSearch(2, t)),
                          StatusSearch(3, t)),
               StatusSearch(4, t))

\* ---- _parse_html ----------------------------------------------------------------
NoReading == [outcome |-> "raise", imeca |-> 0, status |-> "", station |-> <<>>, source |-> ""]

\* Mutant: the status is computed from the value whatever the text names.
ReadingOfThresholdOnly(n, found, station) ==
    IF ~n.found THEN NoReading
    ELSE [outcome |-> "return",
          imeca |-> n.value,
          status |-> DetermineStatus(n.value),
          station |-> station,
          source |-> "real"]

\* The end of _parse_html: ValueError without a value; else the dict, with the
\* status computed from the value when the text named none.
ReadingOf(n, found, station) ==
    IF ~n.found THEN NoReading
    ELSE [outcome |-> "return",
          imeca |-> n.value,
          status |-> IF found /= NoStatus THEN found ELSE DetermineStatus(n.value),
          station |-> station,
          source |-> "real"]

\* AirQualityScraper._parse_html: the reading, or ValueError.
ParseHtml(els) ==
    ReadingOf(ExtractImeca(els), ExtractStatus(GetText(els)), ExtractStation(GetText(els)))

\* validate_imeca_data, for the dict that _parse_html returns
ValidateImecaData(data) == data.imeca >= IMECA_MIN /\ data.imeca <= IMECA_MAX

\* ---- _parse_all_stations ----------------------------------------------------------
\* STATION_COORDS, in the order of the dict; coordinates in 1/10000 of a degree.
STATION_COORDS ==
    << [name |-> <<"L", "a", "s", " ", "P", "i", "n", "t", "a", "s">>, lat |-> 205689, lon |-> -1033064],
       [name |-> <<"C", "e", "n", "t", "r", "o">>, lat |-> 206744, lon |-> -1033464],
       [name |-> <<"M", "i", "r", "a", "v", "a", "l", "l", "e">>, lat |-> 206325, lon |-> -1033300],
       [name |-> <<"T", "l", "a", "q", "u", "e", "p", "a", "q", "u", "e">>, lat |-> 206400, lon |-> -1033120],
       [name |-> <<"V", "a", "l", "l", "a", "r", "t", "a">>, lat |-> 206736, lon |-> -1033914],
       [name |-> <<"O", "b", "l", "a", "t", "o", "s">>, lat |-> 206786, lon |-> -1032939],
       [name |-> <<"Á", "g", "u", "i", "l", "a", "s">>, lat |-> 206800, lon |-> -1034300] >>

\* STATION_COORDS.get(name): the entry whose key is exactly name, if any.
CoordsGet(name) ==
    LET hits == {i \in 1..Len(STATION_COORDS) : STATION_COORDS[i].name = name} IN
    IF hits = {} THEN [known |-> FALSE, lat |-> 0, lon |-> 0]
    ELSE [known |-> TRUE, lat |-> STATION_COORDS[Min(hits)].lat,
          lon |-> STATION_COORDS[Min(hits)].lon]

\* Nivel\s+m[aá]ximo\s+registrado\s+(\d{1,3})\s*puntos?\s*IMECA\s+en\s+([A-Za-zÁÉÍÓÚÑñ ]+)
\* matched at position i: where the number starts, where the station name starts
\* and ends; ok is FALSE when the pattern does not match at i.
StationMatchAt(t, i) ==
    LET a == Run(t, i + 5, Space)                \* m[aá]ximo
        b == Run(t, a + 6, Space)                \* registrado
        c == Run(t, b + 10, Space)               \* the number
        d == Run(t, c, Digit)
        p == Run(t, d, Space)                    \* puntos?
        s == IF Lower(Ch(t, p + 5)) = "s" THEN p + 6 ELSE p + 5
        m == Run(t, s, Space)                    \* IMECA
        e == Run(t, m + 5, Space)                \* en
        f == Run(t, e + 2, Space)
        gs == {g \in (e + 3)..f : Ch(t, g) \in StationChar}
        lit == /\ Lit(t, i, <<"n", "i", "v", "e", "l">>)
               /\ a > i + 5 /\ Lower(Ch(t, a)) = "m" /\ Lower(Ch(t, a + 1)) \in {"a", "á"}
               /\ Lit(t, a + 2, <<"x", "i", "m", "o">>)
               /\ b > a + 6 /\ Lit(t, b, <<"r", "e", "g", "i", "s", "t", "r", "a", "d", "o">>)
               /\ c > b + 10 /\ d > c /\ d - c <= 3
               /\ Lit(t, p, <<"p", "u", "n", "t", "o">>)
               /\ Lit(t, m, <<"i", "m", "e", "c", "a">>)
               /\ e > m + 5 /\ Lit(t, e, <<"e", "n">>)
               /\ gs /= {}
    IN  IF lit
        THEN [ok |-> TRUE, num |-> Slice(t, c, d), name |-> Slice(t, Max(gs), Run(t, Max(gs), StationChar)),
              end |-> Run(t, Max(gs), StationChar)]
        ELSE [ok |-> FALSE, num |-> <<>>, name |-> <<>>, end |-> 0]

\* re.findall(station_pattern, page_text, flags=re.IGNORECASE) from position pos on:
\* the matches from left to right, none overlapping another.
RECURSIVE FindAllStations(_, _)
RECURSIVE StationsFrom(_, _)
FindAllStations(t, pos) == StationsFrom(t, {i \in pos..Len(t) : StationMatchAt(t, i).ok})

\* The leftmost match and the matches after it.
StationsFrom(t, starts) ==
    IF starts = {} THEN <<>>
    ELSE <<StationMatchAt(t, Min(starts))>> \o FindAllStations(t, StationMatchAt(t, Min(starts)).end)

\* The dict _parse_all_stations appends for the station name and the number.
StationDict(name, num) ==
    [station |-> name,
     imeca |-> ToInt(num),
     status |-> DetermineStatus(ToInt(num)),
     known |-> CoordsGet(name).known, lat |-> CoordsGet(name).lat, lon |-> CoordsGet(name).lon,
     source |-> "real"]

\* The record _parse_all_stations appends for one match.
StationRecord(m) == StationDict(Strip(CollapseSpaces(m.name)), m.num)

\* The loop of _parse_all_stations over the matches.
StationRecords(ms) == [i \in 1..Len(ms) |-> StationRecord(ms[i])]

\* AirQualityScraper._parse_all_stations
ParseAllStations(els) == StationRecords(FindAllStations(GetTextStripped(els), 1))

\* ---- synthetic readings ---------------------------------------------------------
\* Bound: the states of the random generator a call may start from.
MaxSeed == 99

\* np.random.randint(low, high): the draw number i of a generator in state s, a
\* value of low..high-1; every value of the interval is drawn for some state.
RandInt(low, high, s, i) == low + ((s + 37 * i) % (high - low))

SimulatedName ==
    <<"L", "a", "s", " ", "P", "i", "n", "t", "a", "s", " ",
      "(", "S", "i", "m", "u", "l", "a", "d", "o", ")">>

\* AirQualityScraper._generate_mock_data
GenerateMockData(s) ==
    [outcome |-> "return",
     imeca |-> RandInt(45, 115, s, 0),
     status |-> DetermineStatus(RandInt(45, 115, s, 0)),
     station |-> SimulatedName,
     source |-> "mock"]

\* AirQualityScraper._generate_mock_stations
\* Mutant: the indexes of the synthetic stations are drawn from 40..239.
GenerateMockStationsWide(s) ==
    [i \in 1..Len(STATION_COORDS) |->
        [station |-> STATION_COORDS[i].name,
         imeca |-> RandInt(40, 240, s, i),
         status |-> DetermineStatus(RandInt(40, 240, s, i)),
         known |-> TRUE, lat |-> STATION_COORDS[i].lat, lon |-> STATION_COORDS[i].lon,
         source |-> "mock"]]

GenerateMockStations(s) ==
    [i \in 1..Len(STATION_COORDS) |->
        [station |-> STATION_COORDS[i].name,
         imeca |-> RandInt(40, 140, s, i),
         status |-> DetermineStatus(RandInt(40, 140, s, i)),
         known |-> TRUE, lat |-> STATION_COORDS[i].lat, lon |-> STATION_COORDS[i].lon,
         source |-> "mock"]]

\* ---- get_chapala_level_real: the patterns -----------------------------------------
NoLevel == [found |-> FALSE, start |-> 0, end |-> 0, num |-> <<>>]

\* (\d{2,3}\.\d{2}) at position c: the position after it, 0 when it is not there.
\* What follows must not be a digit in either pattern (\s* and then "m").
LevelNumberEnd(t, c) ==
    LET d == Run(t, c, Digit) IN
    IF /\ d - c \in {2, 3} /\ Ch(t, d) = "."
       /\ Ch(t, d + 1) \in Digit /\ Ch(t, d + 2) \in Digit
    THEN d + 3 ELSE 0

\* m\.?s\.?n\.?m\.? at position p, every optional dot taken when it is there:
\* the position after it, 0 when it is not there.
MsnmEnd(t, p) ==
    LET s == IF Ch(t, p + 1) = "." THEN p + 2 ELSE p + 1
        n == IF Ch(t, s + 1) = "." THEN s + 2 ELSE s + 1
        m == IF Ch(t, n + 1) = "." THEN n + 2 ELSE n + 1
    IN  IF Ch(t, p) = "m" /\ Ch(t, s) = "s" /\ Ch(t, n) = "n" /\ Ch(t, m) = "m"
        THEN (IF Ch(t, m + 1) = "." THEN m + 2 ELSE m + 1)
        ELSE 0

\* [Cc]ota[:\s]+(\d{2,3}\.\d{2})\s*(?:m\.?s\.?n\.?m\.?|msnm|m) at position i
CotaFirstAt(t, i) ==
    LET c == Run(t, i + 4, Space \cup {":"})
        e == LevelNumberEnd(t, c)
        u == Run(t, e, Space)
    IN  IF /\ Ch(t, i) \in {"C", "c"} /\ LitCS(t, i + 1, <<"o", "t", "a">>)
           /\ c > i + 4 /\ e > 0 /\ Ch(t, u) = "m"
        THEN [found |-> TRUE, start |-> i,
              end |-> IF MsnmEnd(t, u) > 0 THEN MsnmEnd(t, u) ELSE u + 1,
              num |-> Slice(t, c, e)]
        ELSE NoLevel

\* (\d{2,3}\.\d{2})\s*(?:m\.?s\.?n\.?m\.?|msnm|m)\s*[Cc]ota at position i
CotaLastAt(t, i) ==
    LET e == LevelNumberEnd(t, i)
        u == Run(t, e, Space)
        ends == {x \in {MsnmEnd(t, u), MsnmEnd(t, u) - 1, u + 1} :
                    /\ x > u
                    /\ (x = MsnmEnd(t, u) - 1 => Ch(t, x) = ".")
                    /\ Ch(t, Run(t, x, Space)) \in {"C", "c"}
                    /\ LitCS(t, Run(t, x, Space) + 1, <<"o", "t", "a">>)}
    IN  IF Ch(t, i) \in Digit /\ e > 0 /\ Ch(t, u) = "m" /\ ends /= {}
        THEN [found |-> TRUE, start |-> i, end |-> Run(t, Max(ends), Space) + 4,
              num |-> Slice(t, i, e)]
        ELSE NoLevel

\* float() of a matched level, in hundredths of a metre ("94.56" is 9456).
ParseLevel(num) ==
    LET dot == Min({i \in 1..Len(num) : num[i] = "."}) IN
    100 * ToInt(Slice(num, 1, dot)) + ToInt(Slice(num, dot + 1, Len(num) + 1))

\* re.search(patterns[n - 1], page_text): the leftmost match.
FirstLevel(t, n) ==
    LET At(i) == IF n = 1 THEN CotaFirstAt(t, i) ELSE CotaLastAt(t, i)
        starts == {i \in 1..Len(t) : At(i).found}
    IN  IF starts = {} THEN NoLevel ELSE At(Min(starts))

\* Mutant: the reversed form "N msnm cota" is searched first.
ExtractLevelReversedFirst(t) ==
    IF FirstLevel(t, 2).found THEN FirstLevel(t, 2)
    ELSE FirstLevel(t, 1)

\* The loop over patterns of get_chapala_level_real: the first pattern that
\* matches anywhere in the text gives the level.
ExtractLevel(t) ==
    IF FirstLevel(t, 1).found THEN FirstLevel(t, 1)
    ELSE FirstLevel(t, 2)

\* page_text[max(m.start() - 30, 0) : min(m.end() + 30, len(page_text))]
RawSnippet(t, m) == Slice(t, Max({m.start - 30, 1}), Min({m.end + 30, Len(t) + 1}))

\* What get_chapala_level_real gives: a WaterLevel, or the exception it re-raises.
WaterLevel(metres, source, snippet, hasSnippet) ==
    [outcome |-> "return", level |-> metres, unit |-> "msnm", source |-> source,
     snippet |-> snippet, hasSnippet |-> hasSnippet, error |-> ""]

LevelRaised == [outcome |-> "raise", level |-> 0, unit |-> "", source |-> "",
                snippet |-> <<>>, hasSnippet |-> FALSE, error |-> ""]

\* The exception e leaves the try block.
LevelError(e) == [LevelRaised EXCEPT !.error = e]

\* The try block of get_chapala_level_real for one answer of the server:
\* response is "ok" (status 200, the page els) or the exception of requests.get
\* or raise_for_status.
LevelOf(response, t, m) ==
    IF response /= "ok" THEN LevelError(response)
    ELSE IF ~m.found THEN LevelError("ValueError")
    ELSE WaterLevel(ParseLevel(m.num), "real", RawSnippet(t, m), TRUE)

ChapalaTryBody(response, els) ==
    LevelOf(response, GetTextStripped(els), ExtractLevel(GetTextStripped(els)))

\* Mutant: the exception is raised again whatever use_mock_on_error is.
ChapalaExceptReraise(use_mock_on_error, r) ==
    r

\* Mutant: the simulated level is returned whatever use_mock_on_error is.
ChapalaExceptMockAlways(use_mock_on_error, r) ==
    IF r.outcome = "return" THEN r
    ELSE WaterLevel(9450, "mock", <<>>, FALSE)

\* except Exception: re-raise, or the simulated level, when the try block gave r.
ChapalaExcept(use_mock_on_error, r) ==
    IF r.outcome = "return" THEN r
    ELSE IF ~use_mock_on_error THEN r
    ELSE WaterLevel(9450, "mock", <<>>, FALSE)

\* get_chapala_level_real(use_mock_on_error)
get_chapala_level_real(use_mock_on_error, response, els) ==
    ChapalaExcept(use_mock_on_error, ChapalaTryBody(response, els))

\* The elements the air-quality pages of the model are made of.
AirFragments ==
       \* 1: 'Nivel máximo registrado 142 puntos IMECA en Las Pintas'
    << [tag |-> "td", hinted |-> FALSE,
        text |-> <<"N", "i", "v", "e", "l", " ", "m", "á", "x", "i", "m", "o", " ", "r",
                     "e", "g", "i", "s", "t", "r", "a", "d", "o", " ", "1", "4", "2", " ",
                     "p", "u", "n", "t", "o", "s", " ", "I", "M", "E", "C", "A", " ", "e",
                     "n", " ", "L", "a", "s", " ", "P", "i", "n", "t", "a", "s">>],
       \* 2: 'IMECA: 80. '
       [tag |-> "td", hinted |-> FALSE,
        text |-> <<"I", "M", "E", "C", "A", ":", " ", "8", "0", ".", " ">>],
       \* 3: '105'
       [tag |-> "h", hinted |-> FALSE,
        text |-> <<"1", "0", "5">>],
       \* 4: ' Valor 77 '
       [tag |-> "div", hinted |-> TRUE,
        text |-> <<" ", "V", "a", "l", "o", "r", " ", "7", "7", " ">>],
       \* 5: 'Índice AIRE Y SALUD: Regular\n'
       [tag |-> "td", hinted |-> FALSE,
        text |-> <<"Í", "n", "d", "i", "c", "e", " ", "A", "I", "R", "E", " ", "Y", " ",
                     "S", "A", "L", "U", "D", ":", " ", "R", "e", "g", "u", "l", "a", "r",
                     "\n">>],
       \* 6: ' 250 puntos IMECA en Centro.'
       [tag |-> "td", hinted |-> FALSE,
        text |-> <<" ", "2", "5", "0", " ", "p", "u", "n", "t", "o", "s", " ", "I", "M",
                     "E", "C", "A", " ", "e", "n", " ", "C", "e", "n", "t", "r", "o", ".">>],
       \* 7: '999 '
       [tag |-> "h", hinted |-> FALSE,
        text |-> <<"9", "9", "9", " ">>],
       \* 8: 'Estación: Oblatos '
       [tag |-> "td", hinted |-> FALSE,
        text |-> <<"E", "s", "t", "a", "c", "i", "ó", "n", ":", " ", "O", "b", "l", "a",
                     "t", "o", "s", " ">>],
       \* 9: 'Nivel máximo registrado 95 puntos IMECA en Centro.'
       [tag |-> "td", hinted |-> FALSE,
        text |-> <<"N", "i", "v", "e", "l", " ", "m", "á", "x", "i", "m", "o", " ", "r",
                     "e", "g", "i", "s", "t", "r", "a", "d", "o", " ", "9", "5", " ", "p",
                     "u", "n", "t", "o", "s", " ", "I", "M", "E", "C", "A", " ", "e", "n",
                     " ", "C", "e", "n", "t", "r", "o", ".">>],
       \* 10: '77 es el índice IMECA '
       [tag |-> "td", hinted |-> FALSE,
        text |-> <<"7", "7", " ", "e", "s", " ", "e", "l", " ", "í", "n", "d", "i", "c",
                     "e", " ", "I", "M", "E", "C", "A", " ">>],
       \* 11: 'Calidad del aire en la ZMG '
       [tag |-> "td", hinted |-> FALSE,
        text |-> <<"C", "a", "l", "i", "d", "a", "d", " ", "d", "e", "l", " ", "a", "i",
                     "r", "e", " ", "e", "n", " ", "l", "a", " ", "Z", "M", "G", " ">>],
       \* 12: ' MUY  MALA '
       [tag |-> "div", hinted |-> FALSE,
        text |-> <<" ", "M", "U", "Y", " ", " ", "M", "A", "L", "A", " ">>],
       \* 13: 'Nivel máximo registrado 60 puntos IMECA en miravalle. Nivel Maximo registrado 7 punto IMECA en  Vallarta, Nivel máximo registrado 300 puntos IMECA en Águilas; Nivel máximo registrado 151 puntos IMECA en Tlaquepaque Sur\n'
       [tag |-> "td", hinted |-> FALSE,
        text |-> <<"N", "i", "v", "e", "l", " ", "m", "á", "x", "i", "m", "o", " ", "r",
                     "e", "g", "i", "s", "t", "r", "a", "d", "o", " ", "6", "0", " ", "p",
                     "u", "n", "t", "o", "s", " ", "I", "M", "E", "C", "A", " ", "e", "n",
                     " ", "m", "i", "r", "a", "v", "a", "l", "l", "e", ".", " ", "N", "i",
                     "v", "e", "l", " ", "M", "a", "x", "i", "m", "o", " ", "r", "e", "g",
                     "i", "s", "t", "r", "a", "d", "o", " ", "7", " ", "p", "u", "n", "t",
                     "o", " ", "I", "M", "E", "C", "A", " ", "e", "n", " ", " ", "V", "a",
                     "l", "l", "a", "r", "t", "a", ",", " ", "N", "i", "v", "e", "l", " ",
                     "m", "á", "x", "i", "m", "o", " ", "r", "e", "g", "i", "s", "t", "r",
                     "a", "d", "o", " ", "3", "0", "0", " ", "p", "u", "n", "t", "o", "s",
                     " ", "I", "M", "E", "C", "A", " ", "e", "n", " ", "Á", "g", "u", "i",
                     "l", "a", "s", ";", " ", "N", "i", "v", "e", "l", " ", "m", "á", "x",
                     "i", "m", "o", " ", "r", "e", "g", "i", "s", "t", "r", "a", "d", "o",
                     " ", "1", "5", "1", " ", "p", "u", "n", "t", "o", "s", " ", "I", "M",
                     "E", "C", "A", " ", "e", "n", " ", "T", "l", "a", "q", "u", "e", "p",
                     "a", "q", "u", "e", " ", "S", "u", "r", "\n">>] >>

\* The elements the reservoir pages of the model are made of.
ChapalaFragments ==
       \* 1: 'Cota: 94.56 msnm'
    << [tag |-> "td", hinted |-> FALSE,
        text |-> <<"C", "o", "t", "a", ":", " ", "9", "4", ".", "5", "6", " ", "m", "s",
                     "n", "m">>],
       \* 2: '93.10 msnm cota'
       [tag |-> "td", hinted |-> FALSE,
        text |-> <<"9", "3", ".", "1", "0", " ", "m", "s", "n", "m", " ", "c", "o", "t",
                     "a">>],
       \* 3: 'COTA 95.00 m'
       [tag |-> "td", hinted |-> FALSE,
        text |-> <<"C", "O", "T", "A", " ", "9", "5", ".", "0", "0", " ", "m">>],
       \* 4: ' cota 96.20 m.s.n.m. '
       [tag |-> "td", hinted |-> FALSE,
        text |-> <<" ", "c", "o", "t", "a", " ", "9", "6", ".", "2", "0", " ", "m", ".",
                     "s", ".", "n", ".", "m", ".", " ">>],
       \* 5: 'cota 1594.56 msnm'
       [tag |-> "td", hinted |-> FALSE,
        text |-> <<"c", "o", "t", "a", " ", "1", "5", "9", "4", ".", "5", "6", " ", "m",
                     "s", "n", "m">>],
       \* 6: 'Lago de Chapala '
       [tag |-> "td", hinted |-> FALSE,
        text |-> <<"L", "a", "g", "o", " ", "d", "e", " ", "C", "h", "a", "p", "a", "l",
                     "a", " ">>],
       \* 7: '1597.31 m Cota:'
       [tag |-> "td", hinted |-> FALSE,
        text |-> <<"1", "5", "9", "7", ".", "3", "1", " ", "m", " ", "C", "o", "t", "a",
                     ":">>] >>


(***************************************************************************)
(* The functions of data.py as operations on a page at hand                *)
(***************************************************************************)
\* Bound: the number of elements of a page.
MaxElems == 2

\* Bound: the largest index value handed to _determine_status.
MaxImeca == 260

PagesOf(fragments, ids) ==
    UNION {{[i \in 1..n |-> fragments[f[i]]] : f \in [1..n -> ids]} : n \in 1..MaxElems}

AirPages == PagesOf(AirFragments, 1..Len(AirFragments))

ChapalaPages == PagesOf(ChapalaFragments, 1..Len(ChapalaFragments))

NotParsed == [outcome |-> "none", imeca |-> 0, status |-> "", station |-> <<>>, source |-> ""]

NoStations == [outcome |-> "none", list |-> <<>>]

NoLevelCall == [called |-> FALSE, use_mock_on_error |-> FALSE, response |-> "",
                requests |-> 0, result |-> LevelRaised]

NoCall == [fn |-> "", use_mock_on_error |-> FALSE]

NoResult == [outcome |-> "none", reading |-> NotParsed, stations |-> <<>>]

IdleCache ==
    /\ files = [k \in Filenames |-> [kind |-> "missing", bytes |-> <<>>]]
    /\ today = 1
    /\ lastGood = [k \in Filenames |-> NeverSaved]
    /\ failedSince = [k \in Filenames |-> FALSE]
    /\ cacheOp = NoCacheOp

IdleFunctions ==
    /\ page = <<>>
    /\ reading = NotParsed
    /\ stations = NoStations
    /\ imecaArg = 0
    /\ statusRet = NoStatus
    /\ level = NoLevelCall

IdleScraper ==
    /\ call = NoCall
    /\ pc = "idle"
    /\ attempt = 0
    /\ fetches = 0
    /\ slept = 0
    /\ log = <<>>
    /\ lastPage = <<>>
    /\ result = NoResult

\* The entry points of the news.
NewsFns == {"get_env_news", "get_chivas_news"}

NoNewsCall == [fn |-> "", use_ai |-> FALSE, fetches |-> 0, afterGood |-> FALSE]

IdleNews ==
    /\ credential = FALSE
    /\ newsCall = NoNewsCall
    /\ newsPc = "idle"
    /\ newsList = <<>>
    /\ newsResult = <<>>
    /\ remoteLog = <<>>
    /\ served = [f \in NewsFns |-> FALSE]

\* No save and no load is running.
NoWriter == [pc |-> "idle", chunks |-> <<>>, data |-> <<>>, old |-> ReturnNone]

NoReader == [pc |-> "idle", buf |-> <<>>, result |-> ReturnNone, old |-> ReturnNone,
             new |-> ReturnNone, overlapped |-> FALSE]

IdleRace ==
    /\ writer = NoWriter
    /\ reader = NoReader

NoTimes == [html |-> <<>>, stations |-> <<>>]

IdleClock ==
    /\ lastUpdate = NoTimes
    /\ now = [hour |-> 0, minute |-> 0]

\* ---- _parse_html and _parse_all_stations on one page ----------------------------
InitParse ==
    /\ page \in AirPages
    /\ reading = NotParsed
    /\ stations = NoStations
    /\ imecaArg = 0
    /\ statusRet = NoStatus
    /\ level = NoLevelCall
    /\ IdleCache
    /\ IdleScraper
    /\ IdleNews
    /\ IdleRace
    /\ IdleClock

ParseHtmlCall ==
    /\ reading = NotParsed
    /\ reading' = ParseHtml(page)
    /\ UNCHANGED <<page, stations, imecaArg, statusRet, level, cacheVars, scraperVars, newsVars, raceVars, clockVars>>

ParseAllStationsCall ==
    /\ stations = NoStations
    /\ stations' = [outcome |-> "return", list |-> ParseAllStations(page)]
    /\ UNCHANGED <<page, reading, imecaArg, statusRet, level, cacheVars, scraperVars, newsVars, raceVars, clockVars>>

NextParse == ParseHtmlCall \/ ParseAllStationsCall

SpecParse == InitParse /\ [][NextParse]_vars

\* ---- _determine_status on one value -----------------------------------------------
InitStatus ==
    /\ imecaArg \in 0..MaxImeca
    /\ statusRet = NoStatus
    /\ page = <<>>
    /\ reading = NotParsed
    /\ stations = NoStations
    /\ level = NoLevelCall
    /\ IdleCache
    /\ IdleScraper
    /\ IdleNews
    /\ IdleRace
    /\ IdleClock

DetermineStatusCall ==
    /\ statusRet = NoStatus
    /\ statusRet' = DetermineStatus(imecaArg)
    /\ UNCHANGED <<page, reading, stations, imecaArg, level, cacheVars, scraperVars, newsVars, raceVars, clockVars>>

NextStatus == DetermineStatusCall

SpecStatus == InitStatus /\ [][NextStatus]_vars

\* ---- get_chapala_level_real on one page -------------------------------------------
\* What requests.get and raise_for_status can answer.
ChapalaResponses == {"ok", "Timeout", "RequestException", "HTTPError"}

\* The calls of requests.get in one call of get_chapala_level_real: the one of
\* the try block, which is in no loop.
ChapalaRequests == 1

InitChapala ==
    /\ page \in ChapalaPages
    /\ level = NoLevelCall
    /\ reading = NotParsed
    /\ stations = NoStations
    /\ imecaArg = 0
    /\ statusRet = NoStatus
    /\ IdleCache
    /\ IdleScraper
    /\ IdleNews
    /\ IdleRace
    /\ IdleClock

GetChapalaLevelCall ==
    /\ ~level.called
    /\ \E m \in BOOLEAN, r \in ChapalaResponses :
          level' = [called |-> TRUE, use_mock_on_error |-> m, response |-> r,
                       requests |-> ChapalaRequests,
                    result |-> get_chapala_level_real(m, r, page)]
    /\ UNCHANGED <<page, reading, stations, imecaArg, statusRet, cacheVars, scraperVars, newsVars, raceVars, clockVars>>

NextChapala == GetChapalaLevelCall

SpecChapala == InitChapala /\ [][NextChapala]_vars


(***************************************************************************)
(* The daily cache as a state machine                                      *)
(***************************************************************************)
InitCache ==
    /\ files \in [Filenames -> InitialFiles]
    /\ today = 1
    /\ lastGood = [k \in Filenames |-> NeverSaved]
    /\ failedSince = [k \in Filenames |-> FALSE]
    /\ cacheOp = NoCacheOp
    /\ IdleFunctions
    /\ IdleScraper
    /\ IdleNews
    /\ IdleRace
    /\ IdleClock

Load(k) ==
    LET r == load_daily_cache(files[k], today) IN
    /\ cacheOp' = [op |-> "load", file |-> k, day |-> today, outcome |-> r.outcome,
                   absent |-> r.absent, data |-> r.data]
    /\ UNCHANGED <<files, today, lastGood, failedSince, functionVars, scraperVars, newsVars, raceVars, clockVars>>

Save(k, data, fault, cut) ==
    LET r == save_daily_cache(files[k], data, fault)
        ok == SaveTryBody(files[k], data, fault).outcome = "return"
    IN
    /\ files' = [files EXCEPT ![k] = SavedFile(files[k], today, data, fault, cut)]
    /\ lastGood' = IF ok THEN [lastGood EXCEPT ![k] =
                                  [called |-> TRUE, day |-> today, data |-> data]]
                   ELSE lastGood
    /\ failedSince' = [failedSince EXCEPT ![k] = ~ok]
    /\ cacheOp' = [op |-> "save", file |-> k, day |-> today, outcome |-> r.outcome,
                   absent |-> TRUE, data |-> <<>>]
    /\ UNCHANGED <<today, functionVars, scraperVars, newsVars, raceVars, clockVars>>

\* A save under every I/O fault the file system can answer with.
SaveAny ==
    \E k \in Filenames, data \in Payloads, fault \in {"none", "open", "write"} :
        \E cut \in 0..Min({MaxPartial, Len(JsonDump(StrfDate(today), data)) - 1}) :
            /\ (fault /= "write" => cut = 0)
            /\ Save(k, data, fault, cut)

LoadAny == \E k \in Filenames : Load(k)

\* Midnight: the calendar date moves on.
NextDay ==
    /\ today < MaxDay
    /\ today' = today + 1
    /\ UNCHANGED <<files, lastGood, failedSince, cacheOp, functionVars, scraperVars, newsVars, raceVars, clockVars>>

NextCache == LoadAny \/ SaveAny \/ NextDay

SpecCache == InitCache /\ [][NextCache]_vars

(***************************************************************************)
(* load_daily_cache running while save_daily_cache writes the same file:   *)
(* the save is open(filename, 'w'), which truncates the file, and the      *)
(* writes of json.dump, which reach the file chunk after chunk; the load   *)
(* is os.path.exists, open and f.read(), which reads from its offset to    *)
(* the end of the file until a read returns nothing, and json.load of what *)
(* was read.                                                               *)
(***************************************************************************)
\* The file of the key the save and the load share.
RaceFile == "env_news.json"

\* What the file can hold before the save: the files of InitialFiles and the
\* documents of earlier saves of the day.
StoredFiles ==
    InitialFiles \cup
    {[kind |-> "file", bytes |-> JsonDump(StrfDate(1), d)] : d \in {p \in Payloads : Serializable(p)}}

InitRace ==
    /\ \E f \in StoredFiles :
          files = [k \in Filenames |-> IF k = RaceFile THEN f
                                      ELSE [kind |-> "missing", bytes |-> <<>>]]
    /\ today = 1
    /\ lastGood = [k \in Filenames |-> NeverSaved]
    /\ failedSince = [k \in Filenames |-> FALSE]
    /\ cacheOp = NoCacheOp
    /\ IdleFunctions
    /\ IdleScraper
    /\ IdleNews
    /\ IdleRace
    /\ IdleClock

\* The payload the save leaves in the file when it ends: data if json.dump can
\* encode it, and else what the load had as the newest payload before.
NewestAfter(data, before) == IF Serializable(data) THEN Return(data) ELSE before

\* The load that is running when a save opens the file: the save overlaps it.  A
\* load that had ended is forgotten.
Overlapped(r, data) ==
    IF r.pc = "reading"
    THEN [r EXCEPT !.overlapped = TRUE, !.new = NewestAfter(data, r.new)]
    ELSE NoReader

\* save_daily_cache up to open(filename, 'w'): the file is truncated; the open
\* of a directory raises and the save ends.  A load overlaps one save only.
SaveOpen ==
    /\ writer.pc \in {"idle", "done"}
    /\ reader.pc = "reading" => ~reader.overlapped
    /\ \E data \in Payloads :
          IF files[RaceFile].kind = "dir"
          THEN /\ writer' = [pc |-> "done", chunks |-> <<>>, data |-> data,
                             old |-> ReturnNone]
               /\ reader' = IF reader.pc = "reading" THEN reader ELSE NoReader
               /\ files' = files
          ELSE /\ writer' = [pc |-> "writing", chunks |-> JsonDump(StrfDate(today), data),
                             data |-> data,
                             old |-> load_daily_cache(files[RaceFile], today)]
               /\ reader' = Overlapped(reader, data)
               /\ files' = [files EXCEPT ![RaceFile] = [kind |-> "file", bytes |-> <<>>]]
    /\ UNCHANGED <<today, lastGood, failedSince, cacheOp, functionVars, scraperVars,
                   newsVars, clockVars>>

\* One more chunk of json.dump reaches the file; after the last one the file is
\* closed and the save ends (after a TypeError too, with the chunks written so
\* far left in the file).
SaveWrite ==
    /\ writer.pc = "writing"
    /\ files' = [files EXCEPT ![RaceFile].bytes =
                     Prefix(writer.chunks, Len(files[RaceFile].bytes) + 1)]
    /\ writer' = [writer EXCEPT !.pc = IF Len(files[RaceFile].bytes) + 1 >= Len(writer.chunks)
                                       THEN "done" ELSE "writing"]
    /\ UNCHANGED <<reader, today, lastGood, failedSince, cacheOp, functionVars,
                   scraperVars, newsVars, clockVars>>

\* The payload a load that starts now can find stored: under a running save the
\* payload the file held before the save, and else the one it holds.
StoredBefore == IF writer.pc = "writing" THEN writer.old
                ELSE load_daily_cache(files[RaceFile], today)

\* load_daily_cache up to os.path.exists(filename): None when the file is
\* missing.
LoadStart ==
    /\ reader.pc \in {"idle", "done"}
    /\ reader' = [pc |-> IF PathExists(files[RaceFile]) THEN "reading" ELSE "done",
                  buf |-> <<>>,
                  result |-> ReturnNone,
                  old |-> StoredBefore,
                  new |-> IF writer.pc = "writing"
                          THEN NewestAfter(writer.data, StoredBefore) ELSE StoredBefore,
                  overlapped |-> writer.pc = "writing"]
    /\ UNCHANGED <<writer, cacheVars, functionVars, scraperVars, newsVars, clockVars>>

\* What a read at offset off returns: the file from there to its end.
ReadFrom(f, off) == SubSeq(f.bytes, off + 1, Len(f.bytes))

\* What the load returns once f.read() has all of buf: json.load of buf and the
\* comparison of the dates, under the except clause.
Loaded(f, buf, day) ==
    ExceptReturnNone(LoadTryBody([kind |-> f.kind, bytes |-> buf], day))

\* One read of f.read(): what the file holds beyond the offset is appended to the
\* buffer; a read that returns nothing ends f.read(), and the load returns.
LoadRead ==
    /\ reader.pc = "reading"
    /\ IF files[RaceFile].kind = "file" /\ ReadFrom(files[RaceFile], Len(reader.buf)) /= <<>>
       THEN reader' = [reader EXCEPT !.buf = @ \o ReadFrom(files[RaceFile], Len(reader.buf))]
       ELSE reader' = [reader EXCEPT !.pc = "done",
                                     !.result = Loaded(files[RaceFile], reader.buf, today)]
    /\ UNCHANGED <<writer, cacheVars, functionVars, scraperVars, newsVars, clockVars>>

NextRace == SaveOpen \/ SaveWrite \/ LoadStart \/ LoadRead

SpecRace == InitRace /\ [][NextRace]_vars

(***************************************************************************)
(* AirQualityScraper.scrape and scrape_all_stations: the retry loops       *)
(***************************************************************************)
MAX_RETRIES == 3

RETRY_DELAY == 2

\* What one attempt's requests.get / raise_for_status can answer: a page (status
\* 200), or the exception it raises.  "HTTPError404" and "HTTPError403" are the
\* HTTPError of raise_for_status for those statuses, "HTTPError" the one for any
\* status that is not 4xx (500, 503).  "Exception" is any exception that is not
\* a requests.exceptions.RequestException.
Responses ==
    {"ok", "Timeout", "HTTPError404", "HTTPError403", "HTTPError", "RequestException",
     "Exception"}

\* The fragments the pages of the air-quality server are made of.
FetchFragments == {1, 2, 5, 6, 8, 13}

FetchPages == PagesOf(AirFragments, FetchFragments)

\* The pages an answer can carry: an exception carries none.
Served(r) == IF r = "ok" THEN FetchPages ELSE {<<>>}

\* Mutant: data that validate_imeca_data rejects raises, which ends the loop.
FetchedInvalidRaises(r, data) ==
    IF r /= "ok" THEN [e |-> r, reading |-> NotParsed, stations |-> <<>>]
    ELSE IF data.outcome = "raise"
         THEN [e |-> "Exception", reading |-> NotParsed, stations |-> <<>>]
    ELSE IF ValidateImecaData(data) THEN [e |-> "return", reading |-> data, stations |-> <<>>]
    ELSE [e |-> "Exception", reading |-> NotParsed, stations |-> <<>>]

\* The try block of scrape for one answer: "return" with the data, "invalid"
\* when validate_imeca_data rejects it (the block ends, no exception), or the
\* exception raised; the ValueError of _parse_html is an "Exception".
Fetched(r, data) ==
    IF r /= "ok" THEN [e |-> r, reading |-> NotParsed, stations |-> <<>>]
    ELSE IF data.outcome = "raise"
         THEN [e |-> "Exception", reading |-> NotParsed, stations |-> <<>>]
    ELSE IF ValidateImecaData(data) THEN [e |-> "return", reading |-> data, stations |-> <<>>]
    ELSE [e |-> "invalid", reading |-> NotParsed, stations |-> <<>>]

ScrapeTryBody(r, els) == Fetched(r, ParseHtml(els))

\* The try block of scrape for every answer the server of the model can give.
ScrapeTried == [r \in Responses |-> [els \in Served(r) |-> ScrapeTryBody(r, els)]]

\* Mutant: a timeout ends the loop at once.
ScrapeExceptNoRetry(e, n) ==
    CASE e = "return" -> "return"
      [] e = "invalid" -> "next"
      [] e = "Timeout" -> "break"
      [] e = "HTTPError404" -> "break"
      [] e = "HTTPError403" -> "next"
      [] e = "HTTPError" -> "next"
      [] e = "RequestException" -> IF n < MAX_RETRIES - 1 THEN "sleep" ELSE "next"
      [] OTHER -> "break"

\* The except clauses of scrape in attempt n: "sleep" is time.sleep and continue,
\* "next" is falling off the end of the loop body, "break" leaves the loop.
ScrapeExcept(e, n) ==
    CASE e = "return" -> "return"
      [] e = "invalid" -> "next"
      [] e = "Timeout" -> IF n < MAX_RETRIES - 1 THEN "sleep" ELSE "next"
      [] e = "HTTPError404" -> "break"
      [] e = "HTTPError403" -> "next"
      [] e = "HTTPError" -> "next"
      [] e = "RequestException" -> IF n < MAX_RETRIES - 1 THEN "sleep" ELSE "next"
      [] OTHER -> "break"

\* Mutant: fewer than five stations count as a failed extraction.
StationsTryBodyThreshold(r, els) ==
    IF r /= "ok" THEN [e |-> r, reading |-> NotParsed, stations |-> <<>>]
    ELSE IF Len(ParseAllStations(els)) >= 5
         THEN [e |-> "return", reading |-> NotParsed, stations |-> ParseAllStations(els)]
    ELSE [e |-> "Exception", reading |-> NotParsed, stations |-> <<>>]

\* Mutant: the stations of the registry the page lacks are filled in with
\* synthetic records.
StationsTryBodyPadded(r, els) ==
    LET found == ParseAllStations(els)
        Missing(m) == \A i \in 1..Len(found) : found[i].station /= m.station
    IN  IF r /= "ok" THEN [e |-> r, reading |-> NotParsed, stations |-> <<>>]
        ELSE IF found /= <<>>
             THEN [e |-> "return", reading |-> NotParsed,
                   stations |-> found \o SelectSeq(GenerateMockStations(0), Missing)]
        ELSE [e |-> "Exception", reading |-> NotParsed, stations |-> <<>>]

\* The try block of scrape_all_stations for one answer: "return" with a
\* non-empty list, or the exception raised; the ValueError of an empty list is
\* an "Exception".
StationsFetched(r, found) ==
    IF r /= "ok" THEN [e |-> r, reading |-> NotParsed, stations |-> <<>>]
    ELSE IF found /= <<>> THEN [e |-> "return", reading |-> NotParsed, stations |-> found]
    ELSE [e |-> "Exception", reading |-> NotParsed, stations |-> <<>>]

StationsTryBody(r, els) == StationsFetched(r, ParseAllStations(els))

\* The try block of scrape_all_stations for every answer the server of the model
\* can give.
StationsTried == [r \in Responses |-> [els \in Served(r) |-> StationsTryBody(r, els)]]

\* Mutant: an unexpected exception (the ValueError of an empty list among them)
\* goes on to the next attempt.
StationsExceptRetryAll(e, n) ==
    CASE e = "return" -> "return"
      [] e = "Timeout" -> IF n < MAX_RETRIES - 1 THEN "sleep" ELSE "next"
      [] e = "HTTPError404" -> "break"
      [] e = "HTTPError403" -> "next"
      [] e = "HTTPError" -> "next"
      [] e = "RequestException" -> IF n < MAX_RETRIES - 1 THEN "sleep" ELSE "next"
      [] OTHER -> "next"

\* The except clauses of scrape_all_stations in attempt n.
StationsExcept(e, n) ==
    CASE e = "return" -> "return"
      [] e = "Timeout" -> IF n < MAX_RETRIES - 1 THEN "sleep" ELSE "next"
      [] e = "HTTPError404" -> "break"
      [] e = "HTTPError403" -> "next"
      [] e = "HTTPError" -> "next"
      [] e = "RequestException" -> IF n < MAX_RETRIES - 1 THEN "sleep" ELSE "next"
      [] OTHER -> "break"

\* Mutant: the loop makes one attempt more than MAX_RETRIES.
LoopEndsLate(step, n) == step = "break" \/ (step \in {"sleep", "next"} /\ n >= MAX_RETRIES)

\* for attempt in range(Config.MAX_RETRIES): the loop is left by a break and
\* after the last attempt.
LoopEnds(step, n) == step = "break" \/ (step \in {"sleep", "next"} /\ n + 1 >= MAX_RETRIES)

\* Mutant: the synthetic reading is returned whatever use_mock_on_error is.
ScrapeGiveUpAlwaysMock(use_mock_on_error) ==
    {[outcome |-> "return", reading |-> GenerateMockData(s), stations |-> <<>>] :
        s \in 0..MaxSeed}

\* The code after the loop of scrape.
ScrapeGiveUp(use_mock_on_error) ==
    IF use_mock_on_error
    THEN {[outcome |-> "return", reading |-> GenerateMockData(s), stations |-> <<>>] :
             s \in 0..MaxSeed}
    ELSE {[outcome |-> "raise", reading |-> NotParsed, stations |-> <<>>]}

\* The code after the loop of scrape_all_stations.
StationsGiveUp(use_mock_on_error) ==
    IF use_mock_on_error
    THEN {[outcome |-> "return", reading |-> NotParsed, stations |-> GenerateMockStations(s)] :
             s \in 0..MaxSeed}
    ELSE {[outcome |-> "raise", reading |-> NotParsed, stations |-> <<>>]}

InitScrape ==
    /\ IdleScraper
    /\ IdleNews
    /\ IdleRace
    /\ IdleClock
    /\ IdleCache
    /\ IdleFunctions

\* A caller calls scrape or scrape_all_stations; the scraper keeps nothing of
\* an earlier call.
Call ==
    /\ pc \in {"idle", "done"}
    /\ \E f \in {"scrape", "scrape_all_stations"}, m \in BOOLEAN :
          call' = [fn |-> f, use_mock_on_error |-> m]
    /\ pc' = "loop"
    /\ attempt' = 0
    /\ fetches' = 0
    /\ slept' = 0
    /\ log' = <<>>
    /\ lastPage' = <<>>
    /\ result' = NoResult
    /\ UNCHANGED <<cacheVars, functionVars, newsVars, raceVars, clockVars>>

\* The bookkeeping of one pass of either loop: body is what the try block gave,
\* step what the except clauses decided, giveUp what the code after the loop gives.
Pass(r, els, body, step, giveUp) ==
    /\ fetches' = fetches + 1
    /\ log' = Append(log, r)
    /\ lastPage' = els
    /\ slept' = IF step = "sleep" THEN slept + RETRY_DELAY ELSE slept
    /\ attempt' = IF step \in {"sleep", "next"} THEN attempt + 1 ELSE attempt
    /\ pc' = IF step = "return" \/ LoopEnds(step, attempt) THEN "done" ELSE "loop"
    /\ IF step = "return"
       THEN result' = [outcome |-> "return", reading |-> body.reading,
                       stations |-> body.stations]
       ELSE IF LoopEnds(step, attempt) THEN result' \in giveUp
       ELSE result' = result
    /\ UNCHANGED <<call, cacheVars, functionVars, newsVars, raceVars, clockVars>>

\* One pass of the loop of scrape and, when the loop ends with it, the code
\* after the loop.
ScrapeAttempt ==
    /\ pc = "loop"
    /\ call.fn = "scrape"
    /\ \E r \in Responses : \E els \in Served(r) :
          Pass(r, els, ScrapeTried[r][els], ScrapeExcept(ScrapeTried[r][els].e, attempt),
               ScrapeGiveUp(call.use_mock_on_error))

\* One pass of the loop of scrape_all_stations and, when the loop ends with it,
\* the code after the loop.
StationsAttempt ==
    /\ pc = "loop"
    /\ call.fn = "scrape_all_stations"
    /\ \E r \in Responses : \E els \in Served(r) :
          Pass(r, els, StationsTried[r][els],
               StationsExcept(StationsTried[r][els].e, attempt),
               StationsGiveUp(call.use_mock_on_error))

NextScrape == Call \/ ScrapeAttempt \/ StationsAttempt

SpecScrape == InitScrape /\ [][NextScrape]_vars

\* ---- the entry points -------------------------------------------------------------
\* get_air_quality_zmg and get_air_quality_zmg_stations build a scraper and return
\* what its scrape and scrape_all_stations return: they are the calls of Call.
\* get_chapala_level returns what get_chapala_level_real returns.  The dashboard
\* and the daily briefing ask for the air quality first and for the lake level
\* after it, one call at a time.
\* The pages the lake-level server of the entry points serves: one with a level
\* ("Cota: 94.56 msnm") and one without ("Lago de Chapala ").
EntryChapalaFragments == {1, 6}

EntryChapalaPages == {<<ChapalaFragments[i]>> : i \in EntryChapalaFragments}

ChapalaServed(r) == IF r = "ok" THEN EntryChapalaPages ELSE {<<>>}

get_chapala_level(use_mock_on_error, response, els) ==
    get_chapala_level_real(use_mock_on_error, response, els)

GetChapalaLevel ==
    /\ pc \in {"idle", "done"}
    /\ ~level.called
    /\ \E m \in BOOLEAN, r \in ChapalaResponses : \E els \in ChapalaServed(r) :
          /\ level' = [called |-> TRUE, use_mock_on_error |-> m, response |-> r,
                       requests |-> ChapalaRequests,
                       result |-> get_chapala_level(m, r, els)]
          /\ page' = els
    /\ UNCHANGED <<reading, stations, imecaArg, statusRet, cacheVars, scraperVars, newsVars, raceVars, clockVars>>

NextEntry == (~level.called /\ NextScrape) \/ GetChapalaLevel

SpecEntry == InitScrape /\ [][NextEntry]_vars

(***************************************************************************)
(* The news: the feeds, the summaries of the remote model, the entry points *)
(***************************************************************************)
\* EnvNewsConfig.MAX_NEWS and ChivasConfig.MAX_NEWS
MAX_NEWS == 5

\* The 200 of texto[:200] and of len(texto) > 200
SummaryLimit == 200

\* The longest description of the feeds of the model.
MaxDescLen == 201

\* The most entries a feed of the model has.
MaxEntries == 2

Ellipsis == <<".", ".", ".">>

Repeat(c, n) == [i \in 1..n |-> c]

\* re.sub(r"<[^>]+>", "", s): from the left, every "<", one or more characters
\* that are not ">", and ">" is removed.
TagEnd(s, i) == Min({j \in (i + 1)..(Len(s) + 1) : j = Len(s) + 1 \/ s[j] = ">"})

\* Position p of s is inside a match: a "<" at or before it is followed by one
\* character or more that are not ">" and then by ">", at or after p.  (A "<"
\* inside a match ends with the same ">", so the matches never overlap.)
InTag(s, p) ==
    \E i \in 1..p : s[i] = "<" /\ TagEnd(s, i) <= Len(s) /\ TagEnd(s, i) > i + 1
                                /\ p <= TagEnd(s, i)

StripTags(s) ==
    LET Kept(p) == ~InTag(s, p)
        ps == SelectSeq([p \in 1..Len(s) |-> p], Kept)
    IN  [k \in 1..Len(ps) |-> s[ps[k]]]

\* The summaries the entries of the feeds carry: a short one with tags and
\* blanks around it, one of SummaryLimit characters, one of MaxDescLen.
Summaries ==
    { <<" ", "<", "b", ">", "d", "<", "/", "b", ">", "<", ">", " ">>,
      Repeat("d", SummaryLimit),
      <<"<", "p", ">">> \o Repeat("d", MaxDescLen) }

\* An entry of a feed; its link, its date and its source are carried to the
\* item like its title.
FeedEntries == {[title |-> "t", summary |-> s] : s \in Summaries}

\* What feedparser.parse gives: the entries, or an exception.
Feeds ==
    {[raised |-> TRUE, entries |-> <<>>]} \cup
    UNION {{[raised |-> FALSE, entries |-> e] : e \in [1..n -> FeedEntries]} : n \in 0..MaxEntries}

\* max_items: 0 stands for None.
MaxItemsArgs == {0, 1}

RssKeys == {"title", "description", "link", "published", "source"}

\* The dict of one entry in get_env_news_rss and get_chivas_news_rss.  A key
\* that is not in keys is not in the dict.
NewsItem(entry) ==
    [title |-> entry.title,
     description |-> Strip(StripTags(entry.summary)),
     ai_summary |-> <<>>,
     processed |-> FALSE,
     keys |-> RssKeys]

\* entries[:max_items] after max_items = max_items or MAX_NEWS
FirstEntries(entries, max_items) ==
    SubSeq(entries, 1, Min({Len(entries), IF max_items = 0 THEN MAX_NEWS ELSE max_items}))

NewsItems(entries) == [i \in 1..Len(entries) |-> NewsItem(entries[i])]

\* get_env_news_rss(max_items)
get_env_news_rss(feed, max_items) ==
    IF feed.raised THEN <<>> ELSE NewsItems(FirstEntries(feed.entries, max_items))

\* get_chivas_news_rss(max_items)
get_chivas_news_rss(feed, max_items) ==
    IF feed.raised THEN <<>> ELSE NewsItems(FirstEntries(feed.entries, max_items))

\* get_env_news_rss and get_chivas_news_rss for every feed and every max_items
\* of the model.
EnvFetched == [feed \in Feeds |-> [m \in MaxItemsArgs |-> get_env_news_rss(feed, m)]]

ChivasFetched == [feed \in Feeds |-> [m \in MaxItemsArgs |-> get_chivas_news_rss(feed, m)]]

\* What a call of generate_content answers: the text of the response (empty for
\* None), or an exception.
RemoteTexts == {<<>>, <<" ", "s", ".", "\n">>}

RemoteFailed == [ok |-> FALSE, text |-> <<>>]

RemoteAnswers == {RemoteFailed} \cup {[ok |-> TRUE, text |-> t] : t \in RemoteTexts}

\* (texto[:200] + "...") if len(texto) > 200 else texto
Truncated(texto) ==
    IF Len(texto) > SummaryLimit THEN SubSeq(texto, 1, SummaryLimit) \o Ellipsis ELSE texto

\* resumir_noticia_medio_ambiente_con_ia, with key the truth of
\* _ENV_GEMINI_API_KEY and the answers of the primary and the backup model.
resumir_noticia_medio_ambiente_con_ia(descripcion, key, primary, backup) ==
    IF ~key THEN Truncated(descripcion)
    ELSE IF primary.ok THEN Strip(primary.text)
    ELSE IF backup.ok THEN Strip(backup.text)
    ELSE Truncated(descripcion)

\* process_env_news_with_ai: resumir_noticia_medio_ambiente_con_ia raises
\* nothing, so its except clause is never entered.
process_env_news_with_ai(news_item, key, primary, backup) ==
    [news_item EXCEPT
        !.ai_summary = resumir_noticia_medio_ambiente_con_ia(news_item.description, key,
                                                             primary, backup),
        !.processed = key,
        !.keys = RssKeys \cup {"ai_summary", "processed", "error"}]

\* f"Error resumiendo noticia: {e2}", the exception e2 printing as "e".
ErrorSummary ==
    <<"E", "r", "r", "o", "r", " ", "r", "e", "s", "u", "m", "i", "e", "n", "d", "o", " ",
      "n", "o", "t", "i", "c", "i", "a", ":", " ", "e">>

\* resumir_noticia_con_ia: it does not look at _api_key.
resumir_noticia_con_ia(descripcion, primary, backup) ==
    IF primary.ok THEN Strip(primary.text)
    ELSE IF backup.ok THEN Strip(backup.text)
    ELSE ErrorSummary

\* process_news_with_ai: resumir_noticia_con_ia raises nothing, so its except
\* clause is never entered.
process_news_with_ai(news_item, primary, backup) ==
    [news_item EXCEPT
        !.ai_summary = resumir_noticia_con_ia(news_item.description, primary, backup),
        !.processed = TRUE,
        !.keys = RssKeys \cup {"ai_summary", "is_rumor", "processed", "error"}]

\* The list get_env_news returns when use_ai is false.
EnvUnprocessed(news_list) ==
    [i \in 1..Len(news_list) |->
        [news_list[i] EXCEPT
            !.ai_summary = news_list[i].description,
            !.processed = FALSE,
            !.keys = RssKeys \cup {"ai_summary", "processed", "error"}]]

\* genai.GenerativeModel(...) of the first and of the second try block.
PrimaryModel == "gemini-2.5-flash-lite"

BackupModel == "gemini-2.5-flash"

\* A call of generate_content on model and what it answered.
Called(model, answer) == [model |-> model, ok |-> answer.ok, text |-> answer.text]

\* Mutant: the backup model is called whatever the primary model answered.
RemoteCallsBothAlways(fn, key, primary, backup) ==
    IF fn = "get_env_news" /\ ~key THEN <<>>
    ELSE <<Called(PrimaryModel, primary), Called(BackupModel, backup)>>

\* The calls of generate_content the summarizer of fn makes for one item, in
\* order: none without a key in the environment news, the primary model, and
\* the backup model when the call of the primary model raised.
RemoteCalls(fn, key, primary, backup) ==
    IF fn = "get_env_news" /\ ~key THEN <<>>
    ELSE IF primary.ok THEN <<Called(PrimaryModel, primary)>>
    ELSE <<Called(PrimaryModel, primary), Called(BackupModel, backup)>>

\* The process starts with or without an API key in its environment; nothing is
\* in the cache directory.
InitNews ==
    /\ credential \in BOOLEAN
    /\ newsCall = NoNewsCall
    /\ newsPc = "idle"
    /\ newsList = <<>>
    /\ newsResult = <<>>
    /\ remoteLog = <<>>
    /\ served = [f \in NewsFns |-> FALSE]
    /\ IdleCache
    /\ IdleFunctions
    /\ IdleScraper
    /\ IdleRace
    /\ IdleClock

\* What a call leaves when it returns list: the list, and the note that a
\* non-empty list of fn was served on this date.
NewsReturn(fn, list, calls) ==
    /\ newsPc' = "done"
    /\ newsList' = <<>>
    /\ newsResult' = list
    /\ remoteLog' = calls
    /\ served' = IF list /= <<>> THEN [served EXCEPT ![fn] = TRUE] ELSE served

\* The start of get_env_news with the news of the feed: the whole call when the
\* list is empty or use_ai is false, else up to the first item.
EnvNewsStart(news_list, use_ai) ==
    IF news_list = <<>> THEN NewsReturn("get_env_news", <<>>, <<>>)
    ELSE IF ~use_ai
         THEN NewsReturn("get_env_news", EnvUnprocessed(news_list),
                         [i \in 1..Len(news_list) |-> <<>>])
    ELSE /\ newsPc' = "items"
         /\ newsList' = news_list
         /\ newsResult' = <<>>
         /\ remoteLog' = <<>>
         /\ served' = served

\* The start of get_chivas_news: with use_ai false the items of the feed are
\* returned as they are.
ChivasNewsStart(news_list, use_ai) ==
    IF news_list = <<>> THEN NewsReturn("get_chivas_news", <<>>, <<>>)
    ELSE IF ~use_ai
         THEN NewsReturn("get_chivas_news", news_list, [i \in 1..Len(news_list) |-> <<>>])
    ELSE /\ newsPc' = "items"
         /\ newsList' = news_list
         /\ newsResult' = <<>>
         /\ remoteLog' = <<>>
         /\ served' = served

\* get_env_news(max_items, use_ai) is called: the feed is parsed.
GetEnvNews ==
    /\ newsPc \in {"idle", "done"}
    /\ \E use_ai \in BOOLEAN, max_items \in MaxItemsArgs, feed \in Feeds :
          /\ newsCall' = [fn |-> "get_env_news", use_ai |-> use_ai, fetches |-> 1,
                          afterGood |-> served["get_env_news"]]
          /\ EnvNewsStart(EnvFetched[feed][max_items], use_ai)
    /\ UNCHANGED <<credential, cacheVars, functionVars, scraperVars, raceVars, clockVars>>

\* get_chivas_news(max_items, use_ai) is called: the feed is parsed.
GetChivasNews ==
    /\ newsPc \in {"idle", "done"}
    /\ \E use_ai \in BOOLEAN, max_items \in MaxItemsArgs, feed \in Feeds :
          /\ newsCall' = [fn |-> "get_chivas_news", use_ai |-> use_ai, fetches |-> 1,
                          afterGood |-> served["get_chivas_news"]]
          /\ ChivasNewsStart(ChivasFetched[feed][max_items], use_ai)
    /\ UNCHANGED <<credential, cacheVars, functionVars, scraperVars, raceVars, clockVars>>

\* What the next item of the list becomes.
Processed(fn, news_item, key, primary, backup) ==
    IF fn = "get_env_news" THEN process_env_news_with_ai(news_item, key, primary, backup)
    ELSE process_news_with_ai(news_item, primary, backup)

\* One item of the list is processed; the call returns after the last one.
ProcessItem ==
    /\ newsPc = "items"
    /\ \E primary \in RemoteAnswers, backup \in RemoteAnswers :
          /\ newsResult' = Append(newsResult,
                                  Processed(newsCall.fn, Head(newsList), credential,
                                            primary, backup))
          /\ remoteLog' = Append(remoteLog,
                                 RemoteCalls(newsCall.fn, credential, primary, backup))
    /\ newsList' = Tail(newsList)
    /\ newsPc' = IF Len(newsList) = 1 THEN "done" ELSE "items"
    /\ served' = IF Len(newsList) = 1 THEN [served EXCEPT ![newsCall.fn] = TRUE] ELSE served
    /\ UNCHANGED <<credential, newsCall, cacheVars, functionVars, scraperVars, raceVars, clockVars>>

NextNews == GetEnvNews \/ GetChivasNews \/ ProcessItem

SpecNews == InitNews /\ [][NextNews]_vars


(***************************************************************************)
(* Properties of the daily cache                                           *)
(***************************************************************************)
\* The load that cacheOp records read the files as they are now (a save
\* replaces cacheOp, and the date changing does not touch the files).
LoadedFrom(k) == cacheOp.op = "load" /\ cacheOp.file = k

\* C5 (as claimed): a load on the date of the most recent successful save to k
\* returns exactly that save's payload.
C5_LoadReturnsLastSuccessfulSave ==
    \A k \in Filenames :
        (LoadedFrom(k) /\ lastGood[k].called /\ lastGood[k].day = cacheOp.day)
            => (~cacheOp.absent /\ cacheOp.data = lastGood[k].data)

\* C5 (amended): a load on the date of the most recent save to k returns exactly
\* that save's payload when that save succeeded, whatever was saved to k before
\* and whatever was saved to other keys in between; when a later save to k
\* failed, the load returns the last successfully saved payload or absent.
C5_RoundTrip ==
    \A k \in Filenames :
        (LoadedFrom(k) /\ lastGood[k].called /\ lastGood[k].day = cacheOp.day)
            => IF failedSince[k]
               THEN cacheOp.absent \/ cacheOp.data = lastGood[k].data
               ELSE ~cacheOp.absent /\ cacheOp.data = lastGood[k].data

\* C5 witness: a non-empty payload read back from a file that held something
\* else before, after a save to the other key.
C5_Witness ==
    \E k \in Filenames, o \in Filenames :
        /\ k /= o /\ LoadedFrom(k)
        /\ lastGood[k].called /\ lastGood[k].day = cacheOp.day /\ ~failedSince[k]
        /\ lastGood[o].called
        /\ Len(cacheOp.data) > 0 /\ cacheOp.data = lastGood[k].data

\* C6: a load returns a payload only when the stored entry's date is the date
\* of the load; after the first day that entry can only come from a save made
\* on the day of the load, so an entry captured on an earlier date is never
\* returned.
C6_Staleness ==
    \A k \in Filenames :
        (LoadedFrom(k) /\ ~cacheOp.absent)
            => /\ JsonLoad(files[k].bytes).date = StrfDate(cacheOp.day)
               /\ cacheOp.day > 1 => (lastGood[k].called /\ lastGood[k].day = cacheOp.day)

\* C6 witness: an entry saved the day before, still intact in the file, is
\* loaded as absent.
C6_Witness ==
    \E k \in Filenames :
        /\ LoadedFrom(k) /\ cacheOp.absent
        /\ lastGood[k].called /\ ~failedSince[k] /\ lastGood[k].day + 1 = cacheOp.day
        /\ JsonLoad(files[k].bytes).kind = "dict"
        /\ JsonLoad(files[k].bytes).data = lastGood[k].data

\* A file json.load or open cannot read.
Unreadable(f) == f.kind /= "file" \/ JsonLoad(f.bytes).kind /= "dict"

\* C7: no cache call raises; a load of a missing or unreadable file returns absent.
C7_CacheNeverRaises ==
    /\ cacheOp.outcome = "return"
    /\ \A k \in Filenames : (LoadedFrom(k) /\ Unreadable(files[k])) => cacheOp.absent

\* C7 witness: a save failed and left a truncated file behind, and the load of
\* that file returned absent.
C7_Witness ==
    \E k \in Filenames :
        /\ LoadedFrom(k) /\ failedSince[k] /\ cacheOp.absent
        /\ files[k].kind = "file" /\ JsonLoad(files[k].bytes).kind = "error"

(***************************************************************************)
(* Properties of the retry loops                                           *)
(***************************************************************************)
AllTimeouts == log /= <<>> /\ \A i \in 1..Len(log) : log[i] = "Timeout"

\* C1: when every request of a call to scrape or to scrape_all_stations times
\* out, the call makes exactly MAX_RETRIES (3) requests before it gives up: it
\* has not given up before the third, and it makes no fourth.
C1_TimeoutsFetchThrice ==
    AllTimeouts =>
        /\ call.fn \in {"scrape", "scrape_all_stations"}
        /\ fetches <= MAX_RETRIES
        /\ (pc = "done") = (fetches = MAX_RETRIES)
        /\ MAX_RETRIES = 3

\* A call to scrape gave up after timeouts only.
C1_Witness ==
    /\ call.fn = "scrape"
    /\ pc = "done"
    /\ AllTimeouts
    /\ fetches = 3
    /\ result.outcome \in {"return", "raise"}

\* The stations _parse_all_stations recovers from each page of the server.
Recovered == [els \in FetchPages |-> ParseAllStations(els)]

\* A call to scrape_all_stations has ended and its latest request was answered
\* with a page.
StationsCallOnPage ==
    /\ call.fn = "scrape_all_stations"
    /\ pc = "done"
    /\ log[Len(log)] = "ok"

IsFullMockSet(res) ==
    /\ res.outcome = "return"
    /\ Len(res.stations) = Len(STATION_COORDS)
    /\ \A i \in 1..Len(STATION_COORDS) :
          /\ res.stations[i].source = "mock"
          /\ res.stations[i].station = STATION_COORDS[i].name

\* C3 as stated: when _parse_all_stations recovers fewer than 5 stations (0 to 4)
\* from the page and use_mock_on_error is true, scrape_all_stations returns the
\* full synthetic set, one mock record per station of STATION_COORDS.
C3_FewerThanFiveGivesMock ==
    (/\ StationsCallOnPage
     /\ call.use_mock_on_error
     /\ Len(Recovered[lastPage]) < 5) => IsFullMockSet(result)

\* C3 as the code has it: there is no minimum number of stations.  With no
\* station recovered and use_mock_on_error true, scrape_all_stations returns the
\* full synthetic set; with one station or more recovered (1 to 4 included) it
\* returns exactly the recovered records, whatever use_mock_on_error is.
C3_OnlyNoStationGivesMock ==
    StationsCallOnPage =>
        /\ (Recovered[lastPage] = <<>> /\ call.use_mock_on_error) => IsFullMockSet(result)
        /\ Recovered[lastPage] /= <<>> =>
              /\ result.outcome = "return"
              /\ result.stations = Recovered[lastPage]
              /\ \A i \in 1..Len(result.stations) : result.stations[i].source = "real"

\* A page without any station made scrape_all_stations return the synthetic set.
C3_Witness ==
    /\ StationsCallOnPage
    /\ call.use_mock_on_error
    /\ Recovered[lastPage] = <<>>
    /\ IsFullMockSet(result)

\* C4: a list returned by scrape_all_stations is of one origin: all its records
\* are real or all are mock, whatever the requests of the call were answered.
C4_OneOrigin ==
    (call.fn = "scrape_all_stations" /\ pc = "done" /\ result.outcome = "return") =>
        \/ \A i \in 1..Len(result.stations) : result.stations[i].source = "real"
        \/ \A i \in 1..Len(result.stations) : result.stations[i].source = "mock"

\* After a failed request, a page with some of the stations of the registry, but
\* not all, was returned as it is.
C4_Witness ==
    /\ StationsCallOnPage
    /\ Len(log) > 1
    /\ result.outcome = "return"
    /\ Len(result.stations) \in 2..(Len(STATION_COORDS) - 1)
    /\ \A i \in 1..Len(result.stations) : result.stations[i].source = "real"

(***************************************************************************)
(* Properties of _determine_status                                         *)
(***************************************************************************)
Classified == statusRet /= NoStatus

BothPatternsDiffer ==
    LET t == GetText(page) IN
    /\ ImecaPatternSearch(t).found
    /\ ContextSearch(t).found
    /\ ImecaPatternSearch(t).value /= ContextSearch(t).value

\* C8: when the text of the page matches both the specific pattern and the
\* keyword-proximity pattern with different values, _parse_html returns the
\* value of the specific pattern.
C8_SpecificPatternWins ==
    (reading /= NotParsed /\ BothPatternsDiffer) =>
        /\ reading.outcome = "return"
        /\ reading.imeca = ImecaPatternSearch(GetText(page)).value

\* "IMECA: 80. " and then "... 142 puntos IMECA ..." gave 142.
C8_Witness ==
    /\ reading /= NotParsed
    /\ BothPatternsDiffer
    /\ ContextSearch(GetText(page)).value = 80
    /\ reading.imeca = 142

LasPintas == <<"L", "a", "s", " ", "P", "i", "n", "t", "a", "s">>

\* The page whose text is "Nivel máximo registrado 142 puntos IMECA en Las Pintas".
LasPintasPage == <<AirFragments[1]>>

\* C9 as stated: from the text "Nivel máximo registrado 142 puntos IMECA en Las
\* Pintas" both _parse_html and _parse_all_stations give station "Las Pintas",
\* value 142, status Mala, origin real.
C9_LasPintasReading ==
    page = LasPintasPage =>
        /\ reading /= NotParsed =>
              /\ reading.outcome = "return"
              /\ reading.station = LasPintas
              /\ reading.imeca = 142
              /\ reading.status = "Mala"
              /\ reading.source = "real"
        /\ stations /= NoStations =>
              /\ Len(stations.list) = 1
              /\ stations.list[1].station = LasPintas
              /\ stations.list[1].imeca = 142
              /\ stations.list[1].status = "Mala"
              /\ stations.list[1].source = "real"

(***************************************************************************)
(* Properties of get_chapala_level_real                                    *)
(***************************************************************************)
\* The page whose text is "Cota: 94.56 msnm".
CotaPage == <<ChapalaFragments[1]>>

\* The page has a phrase of the form "cota N msnm" and one of the reversed form
\* "N msnm cota".
BothForms ==
    LET t == GetTextStripped(page) IN
    FirstLevel(t, 1).found /\ FirstLevel(t, 2).found

\* C10: when the page is fetched and its text is "Cota: 94.56 msnm",
\* get_chapala_level_real returns the level 94.56 with unit "msnm" and origin
\* real; and when the text has both a phrase "cota N msnm" and a reversed phrase
\* "N msnm cota", the level returned is the N of "cota N msnm".
C10_CotaLevel ==
    (level.called /\ level.response = "ok") =>
        /\ page = CotaPage =>
              /\ level.result.outcome = "return"
              /\ level.result.level = 9456
              /\ level.result.unit = "msnm"
              /\ level.result.source = "real"
        /\ BothForms =>
              /\ level.result.outcome = "return"
              /\ level.result.source = "real"
              /\ level.result.level =
                    ParseLevel(FirstLevel(GetTextStripped(page), 1).num)

\* "93.10 msnm cota" and then "Cota: 94.56 msnm" gave 94.56.
C10_Witness ==
    /\ level.called
    /\ level.response = "ok"
    /\ page = <<ChapalaFragments[2], ChapalaFragments[1]>>
    /\ BothForms
    /\ level.result.level = 9456
    /\ level.result.source = "real"
    /\ level.result.unit = "msnm"

\* ---- the retry loops: client errors, failed extraction, invalid values -------------
\* The reading _parse_html gives for each page of the server.
Parsed == [els \in FetchPages |-> ParseHtml(els)]

\* The latest request of the call was answered with a page.
OnPage == log /= <<>> /\ log[Len(log)] = "ok"

\* What a call that gave up returns: synthetic data, or the exception.
GaveUp ==
    /\ pc = "done"
    /\ IF call.use_mock_on_error
       THEN /\ result.outcome = "return"
            /\ IF call.fn = "scrape" THEN result.reading.source = "mock"
               ELSE IsFullMockSet(result)
       ELSE result = [outcome |-> "raise", reading |-> NotParsed, stations |-> <<>>]

\* C13: a request of scrape or scrape_all_stations answered with a 4xx status (403
\* or 404) is the last request of the call: the call ends with it.
C13_ClientErrorAborts ==
    \A i \in 1..Len(log) :
        log[i] \in {"HTTPError403", "HTTPError404"} => (i = Len(log) /\ pc = "done")

\* The page of the latest request holds no value: no index for scrape, no station
\* for scrape_all_stations.
NotFoundOnPage ==
    /\ OnPage
    /\ \/ call.fn = "scrape" /\ Parsed[lastPage].outcome = "raise"
       \/ call.fn = "scrape_all_stations" /\ Recovered[lastPage] = <<>>

\* C14: when a page was fetched and no value is found in it, the call ends with
\* that request (no further request), returning synthetic data if
\* use_mock_on_error is true and raising otherwise.
C14_NotFoundEndsCall == NotFoundOnPage => GaveUp

\* The first request of a call to scrape that refuses synthetic data was answered
\* with a page without an index: the call raised after that one request.
C14_Witness ==
    /\ NotFoundOnPage
    /\ call.fn = "scrape"
    /\ ~call.use_mock_on_error
    /\ fetches = 1
    /\ result.outcome = "raise"

\* The page of the latest request of scrape holds an index outside
\* IMECA_MIN..IMECA_MAX.
InvalidOnPage ==
    /\ OnPage
    /\ call.fn = "scrape"
    /\ Parsed[lastPage].outcome = "return"
    /\ ~ValidateImecaData(Parsed[lastPage])

\* C15 as stated: when the index of the fetched page is out of range, scrape makes
\* no further request: the call ends there, with synthetic data or an exception.
C15_InvalidNoRetry == InvalidOnPage => GaveUp

\* C15 as the code has it: an out-of-range index makes the attempt a failed one.
\* Unless it was attempt MAX_RETRIES, the loop goes on and the page is fetched
\* again; after attempt MAX_RETRIES the call gives up with synthetic data or an
\* exception.  The out-of-range value is never returned.
C15_InvalidIsFailedAttempt ==
    InvalidOnPage =>
        /\ fetches <= MAX_RETRIES
        /\ (pc = "done") = (fetches = MAX_RETRIES)
        /\ pc = "done" => GaveUp
        /\ pc /= "done" => (pc = "loop" /\ result = NoResult)

\* After a page with an out-of-range index scrape fetched again, and got the same
\* kind of page in all MAX_RETRIES attempts.
C15_Witness ==
    /\ InvalidOnPage
    /\ fetches = MAX_RETRIES
    /\ \A i \in 1..Len(log) : log[i] = "ok"
    /\ pc = "done"
    /\ call.use_mock_on_error
    /\ result.reading.source = "mock"

\* The call has ended and its latest attempt did not yield a valid result.
NoValidResult ==
    /\ pc = "done"
    /\ \/ ~OnPage
       \/ NotFoundOnPage
       \/ InvalidOnPage

\* C16: when no attempt yields a valid result and use_mock_on_error is false, the
\* call raises: it returns no reading and no station.
C16_ExhaustedRaises ==
    (NoValidResult /\ ~call.use_mock_on_error) =>
        result = [outcome |-> "raise", reading |-> NotParsed, stations |-> <<>>]

\* scrape_all_stations, refusing synthetic data, raised after three failed requests.
C16_Witness ==
    /\ NoValidResult
    /\ ~call.use_mock_on_error
    /\ call.fn = "scrape_all_stations"
    /\ fetches = MAX_RETRIES
    /\ result.outcome = "raise"

InIndexRange(v) == IMECA_MIN <= v /\ v <= IMECA_MAX

\* C17: every reading returned with source real, the one of scrape and each record
\* of scrape_all_stations, has its index inside IMECA_MIN..IMECA_MAX.
C17_RealReadingsInRange ==
    (pc = "done" /\ result.outcome = "return") =>
        /\ (call.fn = "scrape" /\ result.reading.source = "real") =>
              InIndexRange(result.reading.imeca)
        /\ \A i \in 1..Len(result.stations) :
              result.stations[i].source = "real" => InIndexRange(result.stations[i].imeca)

\* ---- the entry points with the synthetic fallback ---------------------------------
\* C18: with use_mock_on_error true, get_air_quality_zmg,
\* get_air_quality_zmg_stations and get_chapala_level return a record and never
\* raise, whatever the requests of the call were answered.
C18_FallbackNeverRaises ==
    /\ (pc = "done" /\ call.use_mock_on_error) =>
          /\ result.outcome = "return"
          /\ call.fn = "scrape" => result.reading.outcome = "return"
          /\ call.fn = "scrape_all_stations" => result.stations /= <<>>
    /\ (level.called /\ level.use_mock_on_error) => level.result.outcome = "return"

\* The air-quality call met an HTTP error, a page with an invalid value and an
\* unexpected exception, the lake-level call a timeout: both returned synthetic
\* records.
C18_Witness ==
    /\ pc = "done"
    /\ call.fn = "scrape"
    /\ call.use_mock_on_error
    /\ log = <<"HTTPError", "ok", "Exception">>
    /\ result.reading.source = "mock"
    /\ level.called
    /\ level.use_mock_on_error
    /\ level.response = "Timeout"
    /\ level.result.source = "mock"

\* ---- the news -------------------------------------------------------------------
\* A call of a news entry point has returned its list.
NewsReturned == newsPc = "done" /\ newsCall.fn \in NewsFns

\* Both model calls made for item i failed.
BothModelsFailed(i) ==
    Len(remoteLog[i]) = 2 /\ ~remoteLog[i][1].ok /\ ~remoteLog[i][2].ok

\* The summary of item i is the text of the last model call made for it, which
\* answered.
SummaryIsRemote(i) ==
    /\ remoteLog[i] /= <<>>
    /\ remoteLog[i][Len(remoteLog[i])].ok
    /\ newsResult[i].ai_summary = Strip(remoteLog[i][Len(remoteLog[i])].text)

\* The summary of item i is its description, cut to SummaryLimit characters
\* and "..." when it is longer.
SummaryIsTruncated(i) ==
    /\ "ai_summary" \in newsResult[i].keys
    /\ newsResult[i].ai_summary = Truncated(newsResult[i].description)

\* C11: with no API key set, every item get_env_news and get_chivas_news return,
\* for either value of use_ai, has processed false and as ai_summary its
\* description, cut to 200 characters and "..." when it is longer than 200.
C11_NoCredentialTruncates ==
    (NewsReturned /\ ~credential) =>
        \A i \in 1..Len(newsResult) :
            /\ "processed" \in newsResult[i].keys
            /\ ~newsResult[i].processed
            /\ SummaryIsTruncated(i)

\* C12: in every item get_env_news and get_chivas_news return, processed true
\* implies that ai_summary is the text a model call answered: not the cut
\* description and not an error message, also when both model calls failed.
C12_ProcessedIsRemote ==
    NewsReturned =>
        \A i \in 1..Len(newsResult) :
            ("processed" \in newsResult[i].keys /\ newsResult[i].processed) =>
                SummaryIsRemote(i)

\* C19: when the primary and the backup model call of an item both fail, the
\* ai_summary of the item is its cut description, for get_env_news and for
\* get_chivas_news.
C19_FailureGivesTruncated ==
    NewsReturned =>
        \A i \in 1..Len(newsResult) : BothModelsFailed(i) => SummaryIsTruncated(i)

\* C20: a call that returns a non-empty list leaves an entry in the daily cache,
\* and a call made after a non-empty list of the same function was returned on
\* this date does not parse the feed again.
C20_NewsGoThroughCache ==
    NewsReturned =>
        /\ newsResult /= <<>> => \E k \in Filenames : files[k].kind /= "missing"
        /\ newsCall.afterGood => newsCall.fetches = 0

(***************************************************************************)
(* Properties of the returned readings                                     *)
(***************************************************************************)
\* The status the status patterns of _parse_html find in each page of the
\* server; NoStatus when they find none.
NamedOnPage == [els \in FetchPages |-> ExtractStatus(GetText(els))]

\* The status of the record is the threshold classification of its index.
ByThreshold(r) == r.status = DetermineStatus(r.imeca)

\* A call has returned a value to its caller.
Returned == pc = "done" /\ result.outcome = "return"

\* The reading scrape returned was read from the page of the latest request.
RealReading == Returned /\ call.fn = "scrape" /\ result.reading.source = "real"

\* C21 as stated: every reading returned by scrape or scrape_all_stations has the
\* status named by the status text of the page it was read from, when the page
\* has one, and the threshold classification of its index otherwise; a
\* synthetic reading, read from no page, has the threshold classification.
C21_StatusFromPageOrThreshold ==
    Returned =>
        /\ call.fn = "scrape" =>
              IF result.reading.source = "real" /\ NamedOnPage[lastPage] /= NoStatus
              THEN result.reading.status = NamedOnPage[lastPage]
              ELSE ByThreshold(result.reading)
        /\ \A i \in 1..Len(result.stations) :
              IF result.stations[i].source = "real" /\ NamedOnPage[lastPage] /= NoStatus
              THEN result.stations[i].status = NamedOnPage[lastPage]
              ELSE ByThreshold(result.stations[i])

\* C21 as the code has it: the status text of the page decides the status of the
\* single reading of scrape only.  The records of scrape_all_stations and the
\* synthetic readings always have the threshold classification of their index,
\* whatever the page says.
C21_StatusTextForScrapeOnly ==
    Returned =>
        /\ call.fn = "scrape" =>
              IF result.reading.source = "real" /\ NamedOnPage[lastPage] /= NoStatus
              THEN result.reading.status = NamedOnPage[lastPage]
              ELSE ByThreshold(result.reading)
        /\ \A i \in 1..Len(result.stations) : ByThreshold(result.stations[i])

\* scrape returned the reading of a page whose status text (Regular) is not the
\* class of its index (142, Mala).
C21_Witness ==
    /\ RealReading
    /\ lastPage = <<AirFragments[1], AirFragments[5]>>
    /\ result.reading.imeca = 142
    /\ result.reading.status = "Regular"
    /\ DetermineStatus(142) = "Mala"

\* ---- the delay between the attempts ----------------------------------------------
\* C22: within one call to scrape or scrape_all_stations every request after the
\* first comes after one wait of RETRY_DELAY since the request before it, whatever
\* made that request fail, and no wait follows the last request: while the loop
\* goes on every request made so far was followed by a wait, and when the call
\* has ended every request but the last was.
C22_WaitBeforeEveryRetry ==
    /\ pc = "loop" => slept = RETRY_DELAY * fetches
    /\ pc = "done" => slept = RETRY_DELAY * (fetches - 1)

\* ---- the cascade of the single-index extraction ------------------------------------
\* The candidate of the first strategy, in the order of the cascade (contextual
\* phrase, heading scan, class-hinted element scan, keyword proximity), whose
\* candidate is in 0..200; not found when no strategy has one.
FirstInRange(els) ==
    IF InRange200(ImecaPatternSearch(GetText(els))) THEN ImecaPatternSearch(GetText(els))
    ELSE IF InRange200(HeaderScan(els)) THEN HeaderScan(els)
    ELSE IF InRange200(ClassScan(els)) THEN ClassScan(els)
    ELSE IF InRange200(ContextSearch(GetText(els))) THEN ContextSearch(GetText(els))
    ELSE NoNumber

\* C23: the value _parse_html returns is the candidate of the first strategy whose
\* candidate is in the valid range; a strategy with an out-of-range candidate is
\* skipped and the later ones are tried, and no value is returned (ValueError)
\* when no strategy has a candidate in range.
C23_FirstInRangeWins ==
    reading.outcome /= "none" =>
        IF FirstInRange(page).found
        THEN reading.outcome = "return" /\ reading.imeca = FirstInRange(page).value
        ELSE reading.outcome = "raise"

RegistryMatches(fragment) ==
    {i \in 1..Len(STATION_COORDS) :
        Contains(LowerStr(fragment), LowerStr(STATION_COORDS[i].name))}

\* C25: each station-name fragment of _parse_all_stations is matched against the
\* registry by case-insensitive substring.  A fragment that is a registry name in
\* another case, or that contains one, has the coordinates of that station; a
\* fragment that matches no registry name is emitted with null coordinates.
C25_FuzzyRegistryMatch ==
    stations.outcome = "return" =>
        \A i \in 1..Len(stations.list) :
            IF RegistryMatches(stations.list[i].station) = {}
            THEN ~stations.list[i].known
            ELSE /\ stations.list[i].known
                 /\ \E j \in RegistryMatches(stations.list[i].station) :
                       /\ stations.list[i].lat = STATION_COORDS[j].lat
                       /\ stations.list[i].lon = STATION_COORDS[j].lon

\* ---- the order of the model calls --------------------------------------------------
\* The items of the running call go through the summarizer with an API key set.
SummarizedWithKey == credential /\ newsCall.fn \in NewsFns /\ newsCall.use_ai

\* C27: for each item summarized with a credential, the primary model is called
\* first, the backup model only after the call of the primary model failed, and
\* the cut description is the summary only after both calls failed; at most two
\* calls are made for an item, and none after a call that answered.
C27_PrimaryThenBackup ==
    SummarizedWithKey =>
        \A i \in 1..Len(newsResult) :
            /\ Len(remoteLog[i]) \in {1, 2}
            /\ remoteLog[i][1].model = PrimaryModel
            /\ Len(remoteLog[i]) = 2 =>
                  (~remoteLog[i][1].ok /\ remoteLog[i][2].model = BackupModel)
            /\ SummaryIsTruncated(i) => BothModelsFailed(i)

\* An item of get_env_news whose primary call failed and whose backup call
\* answered: its summary is the text of the backup model.
C27_Witness ==
    /\ SummarizedWithKey
    /\ newsPc = "done"
    /\ newsCall.fn = "get_env_news"
    /\ \E i \in 1..Len(newsResult) :
          /\ Len(remoteLog[i]) = 2
          /\ ~remoteLog[i][1].ok
          /\ remoteLog[i][2].ok
          /\ remoteLog[i][2].text /= <<>>
          /\ SummaryIsRemote(i)

(***************************************************************************)
(* Properties of get_chapala_level_real                                    *)
(***************************************************************************)
\* The one attempt of the call failed: the request raised, or the page has no
\* level.
LevelAttemptFailed ==
    level.called /\ (level.response /= "ok" \/ ~ExtractLevel(GetTextStripped(page)).found)

\* The exception of the failed attempt.
OriginalError == IF level.response /= "ok" THEN level.response ELSE "ValueError"

\* C29: get_chapala_level_real makes exactly one request per call and never
\* retries.  When that attempt fails (timeout, connection error, HTTP error, no
\* level on the page) it returns the level 94.50 with source mock and no snippet
\* if use_mock_on_error is true, and raises the exception of the attempt again
\* otherwise.
C29_OneRequestThenMockOrRaise ==
    /\ level.called => level.requests = 1
    /\ LevelAttemptFailed =>
          IF level.use_mock_on_error
          THEN /\ level.result.outcome = "return"
               /\ level.result.level = 9450
               /\ level.result.source = "mock"
               /\ ~level.result.hasSnippet
          ELSE /\ level.result.outcome = "raise"
               /\ level.result.error = OriginalError

\* The page was served but has no level, and the caller refused the simulated
\* level: the ValueError reached the caller after one request.
C29_Witness ==
    /\ LevelAttemptFailed
    /\ level.response = "ok"
    /\ ~level.use_mock_on_error
    /\ level.requests = 1
    /\ level.result.outcome = "raise"
    /\ level.result.error = "ValueError"

(***************************************************************************)
(* Properties of the synthetic readings                                    *)
(***************************************************************************)
\* The index of the record is an integer of the valid range.
InValidRange(r) == r.imeca \in IMECA_MIN..IMECA_MAX

\* C26: whatever the random draw, the reading of _generate_mock_data and every
\* record of _generate_mock_stations has an integer index between IMECA_MIN and
\* IMECA_MAX.
C26_SyntheticIndexInRange ==
    Returned =>
        /\ (call.fn = "scrape" /\ result.reading.source = "mock") =>
              InValidRange(result.reading)
        /\ call.fn = "scrape_all_stations" =>
              \A i \in 1..Len(result.stations) :
                 result.stations[i].source = "mock" => InValidRange(result.stations[i])

\* scrape_all_stations gave up and returned the synthetic stations, one of them
\* with the largest index the draw can give.
C26_Witness ==
    /\ Returned
    /\ call.fn = "scrape_all_stations"
    /\ IsFullMockSet(result)
    /\ \E i \in 1..Len(result.stations) : result.stations[i].imeca = 139

(***************************************************************************)
(* Termination of the retry loops                                          *)
(***************************************************************************)
\* The latest request was answered with a page that holds a valid result: an
\* index of the valid range for scrape, at least one station for
\* scrape_all_stations.
ValidOnPage ==
    /\ OnPage
    /\ IF call.fn = "scrape"
       THEN Parsed[lastPage].outcome = "return" /\ ValidateImecaData(Parsed[lastPage])
       ELSE Recovered[lastPage] /= <<>>

\* What the call returns for the valid result of the latest page.
ValueOnPage ==
    IF call.fn = "scrape"
    THEN [outcome |-> "return", reading |-> Parsed[lastPage], stations |-> <<>>]
    ELSE [outcome |-> "return", reading |-> NotParsed, stations |-> Recovered[lastPage]]

\* The loop is bounded, and a valid result ends the call and is what it returns.
BoundedAttempts ==
    /\ fetches <= MAX_RETRIES
    /\ pc = "loop" => fetches < MAX_RETRIES
    /\ ValidOnPage => (pc = "done" /\ result = ValueOnPage)

\* After a valid result the scraper makes no request: its next step is a new call.
NoAttemptAfterValid == ValidOnPage => (pc' = "loop" /\ fetches' = 0)

\* C28: scrape and scrape_all_stations end after at most MAX_RETRIES requests;
\* the first attempt with a valid result ends the call, which returns that
\* result, and no request follows it.
C28_BoundedRetryFirstValidReturned == []BoundedAttempts /\ [][NoAttemptAfterValid]_vars

\* The third request of scrape_all_stations, after two failed ones, was answered
\* with a page with stations: the call returned them.
C28_Witness ==
    /\ ValidOnPage
    /\ call.fn = "scrape_all_stations"
    /\ fetches = MAX_RETRIES
    /\ log[1] /= "ok" /\ log[2] /= "ok"
    /\ pc = "done"
    /\ result = ValueOnPage

(***************************************************************************)
(* The update time of the page: last_update of _parse_html and of          *)
(* _parse_all_stations                                                     *)
(***************************************************************************)
\* [A-ZÁÉÍÓÚÑ\s,] under re.IGNORECASE
DayChar ==
    AsciiLetter \cup {"Á", "É", "Í", "Ó", "Ú", "Ñ", "á", "é", "í", "ó", "ú", "ñ", ","} \cup Space

\* \d{1,2}:\d{2} at i: the position after the match, 0 when there is none.
ClockAt(t, i) ==
    IF /\ Ch(t, i) \in Digit /\ Ch(t, i + 1) \in Digit /\ Ch(t, i + 2) = ":"
       /\ Ch(t, i + 3) \in Digit /\ Ch(t, i + 4) \in Digit
    THEN i + 5
    ELSE IF /\ Ch(t, i) \in Digit /\ Ch(t, i + 1) = ":"
            /\ Ch(t, i + 2) \in Digit /\ Ch(t, i + 3) \in Digit
    THEN i + 4
    ELSE 0

\* \.? at p: the position after it.
OptDot(t, p) == IF Ch(t, p) = "." THEN p + 1 ELSE p

\* \s*[ap]\.?m\.? at p: the position after the match, 0 when there is none.
MeridiemAt(t, p) ==
    IF /\ Lower(Ch(t, Run(t, p, Space))) \in {"a", "p"}
       /\ Lower(Ch(t, OptDot(t, Run(t, p, Space) + 1))) = "m"
    THEN OptDot(t, OptDot(t, Run(t, p, Space) + 1) + 1)
    ELSE 0

\* \s*-\s*[A-ZÁÉÍÓÚÑ\s,]+ matches at p.
DayFollows(t, p) ==
    Ch(t, Run(t, p, Space)) = "-" /\ Ch(t, Run(t, p, Space) + 1) \in DayChar

\* time_patterns[0] at i, and its group 1
TimePattern1At(t, i) ==
    /\ ClockAt(t, i) > 0
    /\ MeridiemAt(t, ClockAt(t, i)) > 0
    /\ DayFollows(t, MeridiemAt(t, ClockAt(t, i)))

TimePattern1Group(t, i) == Slice(t, i, MeridiemAt(t, ClockAt(t, i)))

\* time_patterns[1] at i, and its group 1
TimePattern2At(t, i) == ClockAt(t, i) > 0 /\ DayFollows(t, ClockAt(t, i))

TimePattern2Group(t, i) == Slice(t, i, ClockAt(t, i))

NoTime == [found |-> FALSE, text |-> <<>>]

\* for pattern in time_patterns: re.search, and the stripped group 1 of the
\* first pattern that matches.
TimeSearch(t) ==
    IF \E i \in 1..Len(t) : TimePattern1At(t, i)
    THEN [found |-> TRUE,
          text |-> Strip(TimePattern1Group(t, Min({i \in 1..Len(t) : TimePattern1At(t, i)})))]
    ELSE IF \E i \in 1..Len(t) : TimePattern2At(t, i)
    THEN [found |-> TRUE,
          text |-> Strip(TimePattern2Group(t, Min({i \in 1..Len(t) : TimePattern2At(t, i)})))]
    ELSE NoTime

NoHour == [found |-> FALSE, hour |-> <<>>, minute |-> <<>>, whole |-> <<>>]

\* The match of (\d{1,2}):(\d{2}) at i.
HourAt(ts, i) ==
    [found |-> TRUE, hour |-> Slice(ts, i, ClockAt(ts, i) - 3),
     minute |-> Slice(ts, ClockAt(ts, i) - 2, ClockAt(ts, i)),
     whole |-> Slice(ts, i, ClockAt(ts, i))]

\* re.search(r'(\d{1,2}):(\d{2})', time_str) of _parse_html
HourSearch(ts) ==
    IF \E i \in 1..Len(ts) : ClockAt(ts, i) > 0
    THEN HourAt(ts, Min({i \in 1..Len(ts) : ClockAt(ts, i) > 0}))
    ELSE NoHour

\* (\\d{1,2}):(\\d{2}) in a raw string, at i: a backslash, one or two letters d,
\* a colon, a backslash and two letters d.  The position after the match, 0 when
\* there is none.
EscapedClockAt(t, i) ==
    IF /\ Ch(t, i) = "\\" /\ Ch(t, i + 1) = "d" /\ Ch(t, i + 2) = "d" /\ Ch(t, i + 3) = ":"
       /\ Ch(t, i + 4) = "\\" /\ Ch(t, i + 5) = "d" /\ Ch(t, i + 6) = "d"
    THEN i + 7
    ELSE IF /\ Ch(t, i) = "\\" /\ Ch(t, i + 1) = "d" /\ Ch(t, i + 2) = ":"
            /\ Ch(t, i + 3) = "\\" /\ Ch(t, i + 4) = "d" /\ Ch(t, i + 5) = "d"
    THEN i + 6
    ELSE 0

\* re.search(r"(\\d{1,2}):(\\d{2})", time_str) of _parse_all_stations
EscapedHourSearch(ts) ==
    IF \E i \in 1..Len(ts) : EscapedClockAt(ts, i) > 0
    THEN [found |-> TRUE,
          hour |-> Slice(ts, Min({i \in 1..Len(ts) : EscapedClockAt(ts, i) > 0}),
                         EscapedClockAt(ts, Min({i \in 1..Len(ts) : EscapedClockAt(ts, i) > 0})) - 4),
          minute |-> <<"\\", "d", "d">>,
          whole |-> Slice(ts, Min({i \in 1..Len(ts) : EscapedClockAt(ts, i) > 0}),
                          EscapedClockAt(ts, Min({i \in 1..Len(ts) : EscapedClockAt(ts, i) > 0})))]
    ELSE NoHour

DigitChar(d) == <<"0", "1", "2", "3", "4", "5", "6", "7", "8", "9">>[d + 1]

RECURSIVE ToDigits(_)
ToDigits(n) == IF n < 10 THEN <<DigitChar(n)>> ELSE ToDigits(n \div 10) \o <<DigitChar(n % 10)>>

\* f"{hour:02d}"
Pad2(n) == IF n < 10 THEN <<"0", DigitChar(n)>> ELSE ToDigits(n)

\* int(s) succeeds.
IsInt(s) == s /= <<>> /\ \A k \in 1..Len(s) : s[k] \in Digit

\* f"{hour:02d}:{minute}"
HourMinute(hour, minute) == Pad2(hour) \o <<":">> \o minute

\* The try block that converts time_str, h being its hour_match and clock the
\* last_update set before the loop; an exception of int() leaves last_update as
\* it was.
LastUpdateOf(ts, h, clock) ==
    IF Contains(LowerStr(ts), <<"p", ".", "m", ".">>) \/ Contains(LowerStr(ts), <<"p", "m">>)
    THEN IF ~h.found \/ ~IsInt(h.hour) THEN clock
         ELSE HourMinute(IF ToInt(h.hour) /= 12 THEN ToInt(h.hour) + 12 ELSE ToInt(h.hour),
                         h.minute)
    ELSE IF Contains(LowerStr(ts), <<"a", ".", "m", ".">>) \/ Contains(LowerStr(ts), <<"a", "m">>)
    THEN IF ~h.found \/ ~IsInt(h.hour) THEN clock
         ELSE HourMinute(IF ToInt(h.hour) = 12 THEN 0 ELSE ToInt(h.hour), h.minute)
    ELSE IF h.found THEN h.whole ELSE clock

\* last_update of _parse_html for the page text t
HtmlLastUpdate(t, clock) ==
    IF TimeSearch(t).found
    THEN LastUpdateOf(TimeSearch(t).text, HourSearch(TimeSearch(t).text), clock)
    ELSE clock

\* last_update of _parse_all_stations for the page text t
StationsLastUpdate(t, clock) ==
    IF TimeSearch(t).found
    THEN LastUpdateOf(TimeSearch(t).text, EscapedHourSearch(TimeSearch(t).text), clock)
    ELSE clock

\* datetime.now().strftime("%H:%M")
Strftime(clock) == Pad2(clock.hour) \o <<":">> \o Pad2(clock.minute)

\* ---- pages with an update time ---------------------------------------------------
ClockHours == 1..12

ClockMinutes == {<<"0", "0">>, <<"0", "5">>, <<"4", "5">>}

AM == <<"a", ".", "m", ".">>

PM == <<"p", ".", "m", ".">>

\* ' - LUNES, 3 DE MARZO DE 2025\n'
DayTrailer ==
    <<" ", "-", " ", "L", "U", "N", "E", "S", ",", " ", "3", " ", "D", "E", " ", "M", "A",
      "R", "Z", "O", " ", "D", "E", " ", "2", "0", "2", "5", "\n">>

\* The header of the page, 'h:mm a.m. - LUNES, 3 DE MARZO DE 2025' or the same
\* with p.m., followed by the record of the highest index.
ClockPage(h, mm, mer) ==
    << [tag |-> "td", hinted |-> FALSE,
        text |-> ToDigits(h) \o <<":">> \o mm \o <<" ">> \o mer \o DayTrailer],
       AirFragments[1] >>

\* The header has a 24-hour time: '14:30 - LUNES, 3 DE MARZO DE 2025'.
Clock24Page ==
    << [tag |-> "td", hinted |-> FALSE, text |-> <<"1", "4", ":", "3", "0">> \o DayTrailer],
       AirFragments[1] >>

\* The page has no time.
NoTimePage == << AirFragments[1] >>

ClockPages ==
    {ClockPage(h, mm, mer) : h \in ClockHours, mm \in ClockMinutes, mer \in {AM, PM}}
        \cup {Clock24Page, NoTimePage}

\* The readings of the clock at the time of the call.
ClockTimes == {[hour |-> 9, minute |-> 5], [hour |-> 21, minute |-> 40]}

InitClock ==
    /\ page \in ClockPages
    /\ now \in ClockTimes
    /\ lastUpdate = NoTimes
    /\ reading = NotParsed
    /\ stations = NoStations
    /\ imecaArg = 0
    /\ statusRet = NoStatus
    /\ level = NoLevelCall
    /\ IdleCache
    /\ IdleScraper
    /\ IdleNews
    /\ IdleRace

\* _parse_html on the page: last_update of the dict it returns.
ParseHtmlTime ==
    /\ lastUpdate.html = <<>>
    /\ ParseHtml(page).outcome = "return"
    /\ lastUpdate' = [lastUpdate EXCEPT !.html = HtmlLastUpdate(GetText(page), Strftime(now))]
    /\ UNCHANGED <<now, cacheVars, functionVars, scraperVars, newsVars, raceVars>>

\* _parse_all_stations on the page: last_update of the records it returns.
ParseAllStationsTime ==
    /\ lastUpdate.stations = <<>>
    /\ ParseAllStations(page) /= <<>>
    /\ lastUpdate' = [lastUpdate EXCEPT
                         !.stations = StationsLastUpdate(GetTextStripped(page), Strftime(now))]
    /\ UNCHANGED <<now, cacheVars, functionVars, scraperVars, newsVars, raceVars>>

NextClock == ParseHtmlTime \/ ParseAllStationsTime

SpecClock == InitClock /\ [][NextClock]_vars

\* The 24-hour form of h:mm a.m. or p.m., zero-padded.
In24Hours(h, mm, mer) ==
    HourMinute(IF mer = PM THEN (IF h = 12 THEN 12 ELSE h + 12)
               ELSE (IF h = 12 THEN 0 ELSE h), mm)

\* The parser has run and last_update is u.
UpdateTimeIs(field, u) == field /= <<>> => field = u

\* last_update of _parse_html is the 24-hour form of the time of the page, and
\* the time of the clock when the page has none.
HtmlUpdateTimeIn24Hours ==
    /\ \A h \in ClockHours, mm \in ClockMinutes, mer \in {AM, PM} :
          page = ClockPage(h, mm, mer) =>
              UpdateTimeIs(lastUpdate.html, In24Hours(h, mm, mer))
    /\ page = NoTimePage => UpdateTimeIs(lastUpdate.html, Strftime(now))

\* The same of last_update of _parse_all_stations.
StationsUpdateTimeIn24Hours ==
    /\ \A h \in ClockHours, mm \in ClockMinutes, mer \in {AM, PM} :
          page = ClockPage(h, mm, mer) =>
              UpdateTimeIs(lastUpdate.stations, In24Hours(h, mm, mer))
    /\ page = NoTimePage => UpdateTimeIs(lastUpdate.stations, Strftime(now))

\* C30: when the page shows the update time h:mm a.m. or h:mm p.m., h in 1..12,
\* last_update of _parse_html and of _parse_all_stations is its 24-hour form,
\* zero-padded HH:MM with the hour in 0..23 (p.m. adds 12 unless h is 12, 12
\* a.m. is 00); when the page shows no time it is the time of the clock.
C30_UpdateTimeIn24Hours == HtmlUpdateTimeIn24Hours /\ StationsUpdateTimeIn24Hours
====
